---- MODULE Spec2Model ----
(***************************************************************************)
(* The trie storage manager (package trie, trieStorageManager): the        *)
(* snapshot/checkpoint request pipeline (callers, dispatcher loop, drain,  *)
(* workers, Close), the pruning-block counter, and the layered             *)
(* Get/Put/Remove facade with the epoch-triggered legacy-storage switch.   *)
(*                                                                         *)
(* The specifications share the variables:                                 *)
(*   Spec       the concurrent pipeline: every goroutine of the manager    *)
(*              interleaved at the points where it touches shared state    *)
(*              (the mutex, the two channels, ctx, the closer, the         *)
(*              throttler);                                                *)
(*   SpecPrune  sequences of Enter/ExitPruningBufferingMode calls on a     *)
(*              fresh manager;                                             *)
(*   SpecStore  sequences of Get/Put/Remove/EpochConfirmed/Close calls     *)
(*              over bounded contents of the storage layers;               *)
(*   SpecClose  Close() and EpochConfirmed over backends whose Close may   *)
(*              fail;                                                      *)
(*   SpecNew    NewTrieStorageManager over arguments with missing          *)
(*              collaborators;                                             *)
(*   SpecWorker the pipeline over a main storer that holds the root and    *)
(*              the activeDB marker or not, so that workers do their work; *)
(*   SpecFair   the pipeline with every goroutine scheduled fairly;        *)
(*   SpecFifo   the pipeline with channels that buffer several requests;   *)
(*   SpecGet    Get and EpochConfirmed over layers that hold any value,    *)
(*              the empty one included;                                    *)
(*   SpecMarker the pipeline over a main storer whose activeDB marker is   *)
(*              absent, "yes" or another value;                            *)
(*   SpecSnapshots  NewTrieStorageManager over every content of the        *)
(*              snapshots directory;                                       *)
(*   SpecMarks  the altered-accounts provider (package alteredaccounts)    *)
(*              marking the addresses of a transaction pool.               *)
(***************************************************************************)
EXTENDS Integers, Sequences, FiniteSets

\* ------------------------------------------------------------- bounds
NumReqs == 2          \* TakeSnapshot/SetCheckpoint calls made in a run
MaxBufLen == 1        \* SnapshotsBufferLen ranges over 0..MaxBufLen
MaxConcurrent == 1    \* SnapshotsGoroutineNum (the throttler's max)
MaxExt == 1           \* external EnterPruningBufferingMode calls outstanding
MaxCalls == 6         \* length of an Enter/Exit call sequence (SpecPrune)
MaxSnapshots == 2     \* legacy snapshot generations on disk at start-up
MaxEpoch == 2         \* epochs 0..MaxEpoch are confirmed
DisableOldStorageEpoch == 1   \* DisableOldTrieStorageEpoch of the arguments
FifoBufLen == 2       \* SnapshotsBufferLen in SpecFifo
MaxTxs == 2           \* transactions in the pool handed to the provider

Reqs == 1..NumReqs

VARIABLES
    \* --- manager state guarded by storageOperationMutex
    pruningBlockingOps,   \* uint32 counter
    closed,               \* tsm.closed
    \* --- shutdown signals and Close()'s position
    ctxDone,              \* cancelFunc() has been called
    closerClosed,         \* closer.Close() has been called
    cpc,                  \* Close(): "idle" | "cancelled" | "legacy" | "main" | "stores" | "done"
    \* --- the two request channels and their capacity
    snapshotReq,          \* buffered content of tsm.snapshotReq (request ids)
    checkpointReq,        \* buffered content of tsm.checkpointReq
    bufLen,               \* SnapshotsBufferLen
    \* --- dispatcher goroutine (doCheckpointsAndSnapshots)
    dpc,                  \* "select" | "wait" | "sleep" | "reserve" | "cleanup" | "drain" | "done"
    cur,                  \* the request the dispatcher holds (0: none)
    \* --- throttler
    thr,                  \* NumGoRoutinesThrottler counter
    \* --- requests: caller position, arguments, and what was done on its behalf
    reqs,
    \* --- external users of the pruning-block counter
    extOut,               \* external Enters not yet matched by an external Exit
    ctor,                 \* SpecNew: the arguments of NewTrieStorageManager and, once
                          \* it was called, what it returned and what it started
    calls,                \* SpecPrune: the Enter ("E") / Exit ("X") calls made so far
    \* --- storage layers and migration flags
    mainStorer,
    checkpointsStorer,
    db,
    snapshots,            \* sequence of legacy generations, ascending id
    flagDisableOldStorage,
    oldStorageClosed,
    closeCalls,           \* how many times Close was called on each backend
    closeFails,           \* the backends whose Close returns an error
    closeErr,             \* Close(): the local err
    closeRet,             \* Close(): the backends it has called Close on, in order,
                          \* whether it has returned, and what
    hashesHolder,         \* checkpointHashesHolder: hashes pending a checkpoint
    ret,                  \* the last facade call: its name and arguments, a Get's
                          \* result, and whether it is a Get that directly follows
                          \* a Remove of its key
    putHist,              \* per key: the value of the last Put not yet followed by a
                          \* Put/Remove of the key, and whether EpochConfirmed has
                          \* written the key since
    \* --- alteredAccountsProvider.extractAddressesWithBalanceChange
    txPool,               \* the transactions of the pool, each with the map it is in
    txsLeft,              \* those the loops have not visited yet
    markedAlteredAccounts \* map[string]*markedAlteredAccount

mgrVars == <<closed, ctxDone, closerClosed, cpc>>
chanVars == <<snapshotReq, checkpointReq, bufLen>>
dispVars == <<dpc, cur>>
extVars == <<extOut, ctor>>
closeVars == <<closeCalls, closeFails, closeErr, closeRet>>
storeVars == <<mainStorer, checkpointsStorer, db, snapshots, flagDisableOldStorage,
               oldStorageClosed, closeVars, hashesHolder, ret, putHist>>
aapVars == <<txPool, txsLeft, markedAlteredAccounts>>
vars == <<pruningBlockingOps, mgrVars, chanVars, dispVars, thr, reqs, extVars,
          calls, storeVars, aapVars>>

\* storageOperationMutex is held across steps only by Close()
LockFree == cpc \in {"idle", "done"}

\* ---------------------------------------------------- pruning counter
\* (pruningBlockingOps is a uint32; the bounds keep it far from 2^32, so the
\* increment is modelled without its wrap-around)
EnterPruningBufferingMode ==
    pruningBlockingOps' = pruningBlockingOps + 1

\* (mutant: the counter is decremented without the check for zero; on the
\* uint32 the result wraps, written here as the value below zero)
ExitPruningBufferingModeNoFloor ==
    pruningBlockingOps' = pruningBlockingOps - 1

ExitPruningBufferingMode ==
    pruningBlockingOps' =
        IF pruningBlockingOps < 1 THEN pruningBlockingOps ELSE pruningBlockingOps - 1

IsPruningBlocked == pruningBlockingOps # 0

\* ------------------------------------------------------------ requests
NewReq == [pc |-> "idle", kind |-> "snapshot", empty |-> FALSE, sink |-> FALSE,
           log |-> <<>>, msg |-> ""]

\* safelyCloseChan(leavesChan); stats.SnapshotFinished()
CloseAndStats(r) ==
    (IF reqs[r].sink THEN <<"close">> ELSE <<>>) \o <<"stats">>

\* (mutant: the request is finished without releasing the pruning block)
finishOperationNoExit(r, pc, before, message) ==
    /\ LockFree
    /\ UNCHANGED pruningBlockingOps
    /\ reqs' = [reqs EXCEPT ![r].pc = pc,
                            ![r].log = @ \o before \o <<"exit">> \o CloseAndStats(r),
                            ![r].msg = message]

\* (mutant: the stats are marked finished first, then the counter is released
\* and the sink closed)
finishOperationStatsFirst(r, pc, before, message) ==
    /\ LockFree
    /\ ExitPruningBufferingMode
    /\ reqs' = [reqs EXCEPT ![r].pc = pc,
                            ![r].log = @ \o before \o <<"stats", "exit">> \o
                                       (IF reqs[r].sink THEN <<"close">> ELSE <<>>),
                            ![r].msg = message]

\* finishOperation: ExitPruningBufferingMode, log.Trace(message),
\* safelyCloseChan, SnapshotFinished; pc is where the request stands afterwards, before is what the calling
\* goroutine did for the request in the same step
finishOperation(r, pc, before, message) ==
    /\ LockFree
    /\ ExitPruningBufferingMode
    /\ reqs' = [reqs EXCEPT ![r].pc = pc,
                            ![r].log = @ \o before \o <<"exit">> \o CloseAndStats(r),
                            ![r].msg = message]

\* the messages finishOperation is called with
NotStarted == "did not start snapshot, goroutione is closing"

WorkerFinished(r) ==
    IF reqs[r].kind = "snapshot" THEN "trie snapshot finished"
                                 ELSE "trie checkpoint finished"

\* requests are numbered in the order their calls start
Callable(r) ==
    /\ reqs[r].pc = "idle"
    /\ \A q \in Reqs : q < r => reqs[q].pc # "idle"

\* (mutant: the empty-root check is missing)
SubmitNoEmptyCheck(r, k) ==
    /\ Callable(r)
    /\ LockFree
    /\ \E e \in BOOLEAN, s \in BOOLEAN :
         LET q == [reqs[r] EXCEPT !.kind = k, !.empty = e, !.sink = s]
             fin == (IF s THEN <<"close">> ELSE <<>>) \o <<"stats">>
         IN \/ /\ closed
               /\ reqs' = [reqs EXCEPT ![r] = [q EXCEPT !.pc = "done", !.log = fin]]
            \/ /\ ~closed
               /\ reqs' = [reqs EXCEPT ![r] = [q EXCEPT !.pc = "checked"]]
    /\ UNCHANGED <<aapVars, pruningBlockingOps, mgrVars, chanVars, dispVars, thr, extVars,
                   calls, storeVars>>

\* (mutant: the isClosed check is missing)
SubmitNoClosedCheck(r, k) ==
    /\ Callable(r)
    /\ LockFree
    /\ \E e \in BOOLEAN, s \in BOOLEAN :
         LET q == [reqs[r] EXCEPT !.kind = k, !.empty = e, !.sink = s]
             fin == (IF s THEN <<"close">> ELSE <<>>) \o <<"stats">>
         IN \/ /\ e
               /\ reqs' = [reqs EXCEPT ![r] = [q EXCEPT !.pc = "done", !.log = fin]]
            \/ /\ ~e
               /\ reqs' = [reqs EXCEPT ![r] = [q EXCEPT !.pc = "checked"]]
    /\ UNCHANGED <<aapVars, pruningBlockingOps, mgrVars, chanVars, dispVars, thr, extVars,
                   calls, storeVars>>

\* the entry of TakeSnapshot / SetCheckpoint: the isClosed check and the
\* empty-root check
Submit(r, k) ==
    /\ Callable(r)
    /\ LockFree      \* isClosed() takes the read lock
    /\ \E e \in BOOLEAN, s \in BOOLEAN :
         LET q == [reqs[r] EXCEPT !.kind = k, !.empty = e, !.sink = s]
             fin == (IF s THEN <<"close">> ELSE <<>>) \o <<"stats">>
         IN \/ /\ closed
               /\ reqs' = [reqs EXCEPT ![r] = [q EXCEPT !.pc = "done", !.log = fin]]
            \/ /\ ~closed
               /\ e
               /\ reqs' = [reqs EXCEPT ![r] = [q EXCEPT !.pc = "done", !.log = fin]]
            \/ /\ ~closed
               /\ ~e
               /\ reqs' = [reqs EXCEPT ![r] = [q EXCEPT !.pc = "checked"]]
    /\ UNCHANGED <<aapVars, pruningBlockingOps, mgrVars, chanVars, dispVars, thr, extVars,
                   calls, storeVars>>

TakeSnapshot(r) == Submit(r, "snapshot")

SetCheckpoint(r) == Submit(r, "checkpoint")

\* (mutant: SetCheckpoint calls RemoveCommitted as TakeSnapshot does)
AcceptRemoveCommittedAlways(r) ==
    /\ reqs[r].pc = "checked"
    /\ LockFree
    /\ EnterPruningBufferingMode
    /\ reqs' = [reqs EXCEPT ![r].pc = "select",
                 ![r].log = @ \o <<"enter", "removeCommitted">>]
    /\ UNCHANGED <<aapVars, mgrVars, chanVars, dispVars, thr, extVars, calls, storeVars>>

\* EnterPruningBufferingMode(); for a snapshot, checkpointHashesHolder.RemoveCommitted
Accept(r) ==
    /\ reqs[r].pc = "checked"
    /\ LockFree
    /\ EnterPruningBufferingMode
    /\ reqs' = [reqs EXCEPT ![r].pc = "select",
                 ![r].log = @ \o <<"enter">> \o
                     (IF reqs[r].kind = "snapshot" THEN <<"removeCommitted">> ELSE <<>>)]
    /\ UNCHANGED <<aapVars, mgrVars, chanVars, dispVars, thr, extVars, calls, storeVars>>

\* select case: tsm.snapshotReq <- snapshotEntry
SendSnapshot(r) ==
    /\ reqs[r].pc = "select"
    /\ reqs[r].kind = "snapshot"
    /\ \/ /\ Len(snapshotReq) < bufLen
          /\ snapshotReq' = Append(snapshotReq, r)
          /\ reqs' = [reqs EXCEPT ![r].pc = "queued"]
          /\ UNCHANGED dispVars
       \/ \* unbuffered channel: hand over to the dispatcher parked in its select
          /\ bufLen = 0
          /\ dpc = "select"
          /\ ~closerClosed
          /\ dpc' = "wait"
          /\ cur' = r
          /\ reqs' = [reqs EXCEPT ![r].pc = "held"]
          /\ UNCHANGED snapshotReq
    /\ UNCHANGED <<aapVars, pruningBlockingOps, mgrVars, checkpointReq, bufLen, thr, extVars,
                   calls, storeVars>>

\* select case: tsm.checkpointReq <- checkpointEntry
SendCheckpoint(r) ==
    /\ reqs[r].pc = "select"
    /\ reqs[r].kind = "checkpoint"
    /\ \/ /\ Len(checkpointReq) < bufLen
          /\ checkpointReq' = Append(checkpointReq, r)
          /\ reqs' = [reqs EXCEPT ![r].pc = "queued"]
          /\ UNCHANGED dispVars
       \/ /\ bufLen = 0
          /\ dpc = "select"
          /\ ~closerClosed
          /\ dpc' = "wait"
          /\ cur' = r
          /\ reqs' = [reqs EXCEPT ![r].pc = "held"]
          /\ UNCHANGED checkpointReq
    /\ UNCHANGED <<aapVars, pruningBlockingOps, mgrVars, snapshotReq, bufLen, thr, extVars,
                   calls, storeVars>>

\* (mutant: the select of TakeSnapshot / SetCheckpoint has no closer case)
SendAbortedMissing(r) ==
    /\ reqs[r].pc = "select"
    /\ FALSE
    /\ UNCHANGED vars

\* select case: <-tsm.closer.ChanClose()
SendAborted(r) ==
    /\ reqs[r].pc = "select"
    /\ closerClosed
    /\ LockFree
    /\ ExitPruningBufferingMode
    /\ reqs' = [reqs EXCEPT ![r].pc = "done",
                            ![r].log = @ \o <<"exit">> \o CloseAndStats(r)]
    /\ UNCHANGED <<aapVars, mgrVars, chanVars, dispVars, thr, extVars, calls, storeVars>>

\* ---------------------------------------------------------- throttler
\* NumGoRoutinesThrottler: CanProcess / StartProcessing / EndProcessing
CanProcess == thr < MaxConcurrent

StartProcessing == thr' = thr + 1

EndProcessing == thr' = thr - 1

\* --------------------------------------------------------- dispatcher
\* (mutant: the dispatcher takes the newest entry of the snapshot channel)
ReceiveSnapshotNewest ==
    /\ dpc = "select"
    /\ snapshotReq # <<>>
    /\ cur' = snapshotReq[Len(snapshotReq)]
    /\ snapshotReq' = SubSeq(snapshotReq, 1, Len(snapshotReq) - 1)
    /\ reqs' = [reqs EXCEPT ![snapshotReq[Len(snapshotReq)]].pc = "held"]
    /\ dpc' = "wait"
    /\ UNCHANGED <<aapVars, pruningBlockingOps, mgrVars, checkpointReq, bufLen, thr, extVars,
                   calls, storeVars>>

\* doProcessLoop, select case: snapshotRequest := <-tsm.snapshotReq
ReceiveSnapshot ==
    /\ dpc = "select"
    /\ snapshotReq # <<>>
    /\ cur' = Head(snapshotReq)
    /\ snapshotReq' = Tail(snapshotReq)
    /\ reqs' = [reqs EXCEPT ![Head(snapshotReq)].pc = "held"]
    /\ dpc' = "wait"
    /\ UNCHANGED <<aapVars, pruningBlockingOps, mgrVars, checkpointReq, bufLen, thr, extVars,
                   calls, storeVars>>

\* doProcessLoop, select case: snapshotRequest := <-tsm.checkpointReq
ReceiveCheckpoint ==
    /\ dpc = "select"
    /\ checkpointReq # <<>>
    /\ cur' = Head(checkpointReq)
    /\ checkpointReq' = Tail(checkpointReq)
    /\ reqs' = [reqs EXCEPT ![Head(checkpointReq)].pc = "held"]
    /\ dpc' = "wait"
    /\ UNCHANGED <<aapVars, pruningBlockingOps, mgrVars, snapshotReq, bufLen, thr, extVars,
                   calls, storeVars>>

\* doProcessLoop, select case: <-ctx.Done()
LoopCancelled ==
    /\ dpc = "select"
    /\ ctxDone
    /\ dpc' = "cleanup"
    /\ UNCHANGED <<aapVars, pruningBlockingOps, mgrVars, chanVars, cur, thr, reqs, extVars,
                   calls, storeVars>>

\* (mutant: the loop does not wait for capacity)
ThrottlerCheckNoWait ==
    /\ dpc = "wait"
    /\ dpc' = "reserve"
    /\ UNCHANGED <<aapVars, pruningBlockingOps, mgrVars, chanVars, cur, thr, reqs, extVars,
                   calls, storeVars>>

\* checkGoRoutinesThrottler: if goRoutinesThrottler.CanProcess() { break }
ThrottlerCheck ==
    /\ dpc = "wait"
    /\ dpc' = IF CanProcess THEN "reserve" ELSE "sleep"
    /\ UNCHANGED <<aapVars, pruningBlockingOps, mgrVars, chanVars, cur, thr, reqs, extVars,
                   calls, storeVars>>

\* checkGoRoutinesThrottler, select case: <-time.After(100ms): continue
ThrottlerRetry ==
    /\ dpc = "sleep"
    /\ dpc' = "wait"
    /\ UNCHANGED <<aapVars, pruningBlockingOps, mgrVars, chanVars, cur, thr, reqs, extVars,
                   calls, storeVars>>

\* (mutant: after finishing the request on cancellation the wait returns nil,
\* so the loop goes on to start a worker for it)
ThrottlerCancelledNoError ==
    /\ dpc = "sleep"
    /\ ctxDone
    /\ finishOperation(cur, "held", <<>>, NotStarted)
    /\ dpc' = "reserve"
    /\ UNCHANGED <<aapVars, mgrVars, chanVars, cur, thr, extVars, calls, storeVars>>

\* checkGoRoutinesThrottler, select case: <-ctx.Done(): finishOperation and
\* return ErrTimeIsOut, on which doProcessLoop returns
ThrottlerCancelled ==
    /\ dpc = "sleep"
    /\ ctxDone
    /\ finishOperation(cur, "done", <<>>, NotStarted)
    /\ cur' = 0
    /\ dpc' = "cleanup"
    /\ UNCHANGED <<aapVars, mgrVars, chanVars, thr, extVars, calls, storeVars>>

\* goRoutinesThrottler.StartProcessing(); go tsm.takeSnapshot / takeCheckpoint
StartWorker ==
    /\ dpc = "reserve"
    /\ StartProcessing
    /\ reqs' = [reqs EXCEPT ![cur].pc = "running", ![cur].log = @ \o <<"spawn">>]
    /\ cur' = 0
    /\ dpc' = "select"
    /\ UNCHANGED <<aapVars, pruningBlockingOps, mgrVars, chanVars, extVars, calls, storeVars>>

\* cleanupChans: <-tsm.closer.ChanClose()
CleanupWait ==
    /\ dpc = "cleanup"
    /\ closerClosed
    /\ dpc' = "drain"
    /\ UNCHANGED <<aapVars, pruningBlockingOps, mgrVars, chanVars, cur, thr, reqs, extVars,
                   calls, storeVars>>

\* cleanupChans, select case: entry := <-tsm.snapshotReq
CleanupSnapshot ==
    /\ dpc = "drain"
    /\ snapshotReq # <<>>
    /\ finishOperation(Head(snapshotReq), "done", <<>>, "trie snapshot finished on cleanup")
    /\ snapshotReq' = Tail(snapshotReq)
    /\ UNCHANGED <<aapVars, mgrVars, checkpointReq, bufLen, dispVars, thr, extVars, calls,
                   storeVars>>

\* cleanupChans, select case: entry := <-tsm.checkpointReq
CleanupCheckpoint ==
    /\ dpc = "drain"
    /\ checkpointReq # <<>>
    /\ finishOperation(Head(checkpointReq), "done", <<>>, "trie checkpoint finished on cleanup")
    /\ checkpointReq' = Tail(checkpointReq)
    /\ UNCHANGED <<aapVars, mgrVars, snapshotReq, bufLen, dispVars, thr, extVars, calls,
                   storeVars>>

\* cleanupChans, select default: return
CleanupDone ==
    /\ dpc = "drain"
    /\ snapshotReq = <<>>
    /\ checkpointReq = <<>>
    /\ dpc' = "done"
    /\ UNCHANGED <<aapVars, pruningBlockingOps, mgrVars, chanVars, cur, thr, reqs, extVars,
                   calls, storeVars>>

\* ------------------------------------------------------------ workers
activeDBKey == "activeDB"

\* "yes"
activeDBVal == <<121, 101, 115>>

\* a backend that holds nothing
EmptyStore == [k \in {} |-> <<>>]

\* common.DBWriteCacher.Get
StorerGet(s, key) ==
    IF key \in DOMAIN s THEN [val |-> s[key], err |-> "nil"]
                        ELSE [val |-> <<>>, err |-> "storer: key not found"]

\* Keys and values are byte strings: a key is named, a value is a sequence of
\* bytes, so that len(val) is Len(val). A backend is a map from the keys it
\* holds to their values.
DataKeys == {"hash1"}

Keys == DataKeys \cup {activeDBKey}

\* the values callers Put: the empty value and a non-empty one
PutVals == {<<>>, <<1>>}

\* start-up contents of a layer other than the main store: nothing, or the data
\* key with a value naming the layer (an empty value gets into a backend only
\* through Put)
LayerContents(v) == {EmptyStore, [k \in DataKeys |-> v]}

CheckpointVal == <<2>>

LegacyDbVal == <<3>>

SnapshotVal(i) == <<4, i>>

\* common.DBWriteCacher
StorerPut(s, key, val) ==
    [k \in DOMAIN s \cup {key} |-> IF k = key THEN val ELSE s[k]]

StorerRemove(s, key) == [k \in DOMAIN s \ {key} |-> s[k]]

Found(val) == [val |-> val, err |-> "nil"]

ErrKeyNotFound == [val |-> <<>>, err |-> "ErrKeyNotFound"]

\* getFromOtherStorers: for i := len(tsm.snapshots) - 1; i >= 0; i--
RECURSIVE getFromSnapshots(_, _)
getFromSnapshots(i, key) ==
    IF i < 1 THEN ErrKeyNotFound
    ELSE LET val == StorerGet(snapshots[i], key).val
         IN IF Len(val) # 0 THEN Found(val) ELSE getFromSnapshots(i - 1, key)

\* (mutant: the generations are consulted oldest first)
RECURSIVE getFromSnapshotsAscending(_, _)
getFromSnapshotsAscending(i, key) ==
    IF i > Len(snapshots) THEN ErrKeyNotFound
    ELSE LET val == StorerGet(snapshots[i], key).val
         IN IF Len(val) # 0 THEN Found(val) ELSE getFromSnapshotsAscending(i + 1, key)

getFromOtherStorersOldestFirst(key) ==
    LET fromCheckpoints == StorerGet(checkpointsStorer, key).val
        fromDb == StorerGet(db, key).val
    IN IF Len(fromCheckpoints) # 0 THEN Found(fromCheckpoints)
       ELSE IF flagDisableOldStorage THEN ErrKeyNotFound
       ELSE IF Len(fromDb) # 0 THEN Found(fromDb)
       ELSE getFromSnapshotsAscending(1, key)

\* (mutant: the legacy layers are consulted whatever the flag says)
getFromOtherStorersIgnoreFlag(key) ==
    LET fromCheckpoints == StorerGet(checkpointsStorer, key).val
        fromDb == StorerGet(db, key).val
    IN IF Len(fromCheckpoints) # 0 THEN Found(fromCheckpoints)
       ELSE IF Len(fromDb) # 0 THEN Found(fromDb)
       ELSE getFromSnapshots(Len(snapshots), key)

\* (mutant: a layer that answers without an error is a hit, whatever the
\* length of the value)
getFromOtherStorersByError(key) ==
    LET fromCheckpoints == StorerGet(checkpointsStorer, key)
        fromDb == StorerGet(db, key)
    IN IF fromCheckpoints.err = "nil" THEN Found(fromCheckpoints.val)
       ELSE IF flagDisableOldStorage THEN ErrKeyNotFound
       ELSE IF fromDb.err = "nil" THEN Found(fromDb.val)
       ELSE getFromSnapshots(Len(snapshots), key)

getFromOtherStorers(key) ==
    LET fromCheckpoints == StorerGet(checkpointsStorer, key).val
        fromDb == StorerGet(db, key).val
    IN IF Len(fromCheckpoints) # 0 THEN Found(fromCheckpoints)
       ELSE IF flagDisableOldStorage THEN ErrKeyNotFound
       ELSE IF Len(fromDb) # 0 THEN Found(fromDb)
       ELSE getFromSnapshots(Len(snapshots), key)

\* isActiveDb: the snapshot target is the main storer seen through the
\* snapshotTrieStorageManager; bytes.Equal(val, []byte(activeDBVal))
isActiveDb == StorerGet(mainStorer, activeDBKey).val = activeDBVal

\* what the snapshot target answers for the marker key: like the manager's
\* Get, a value of length zero is a miss and comes back as an error
MarkerGet ==
    LET val == StorerGet(mainStorer, activeDBKey).val
    IN IF Len(val) # 0 THEN Found(val) ELSE ErrKeyNotFound

\* isActiveDb, when the value is not activeDBVal: log.Debug(..., "err",
\* err.Error(), ...) calls Error() on the error it got, which panics when
\* that error is nil
isActiveDbPanics ==
    /\ MarkerGet.val # activeDBVal
    /\ MarkerGet.err = "nil"

\* the root hash the callers ask for, when it is not the empty trie's
RootHash == "hash1"

\* newSnapshotNode: getNodeFromDBAndDecode reads the root through tsm.Get
RootFound ==
    LET val == StorerGet(mainStorer, RootHash).val
    IN (IF Len(val) # 0 THEN Found(val) ELSE getFromOtherStorers(RootHash)).err = "nil"

\* everything the walk can have done when it ends: nodes persisted into the
\* target, and leaves sent to leavesChan if there is one
FullWalk(r) == <<"persist">> \o (IF reqs[r].sink THEN <<"leaf">> ELSE <<>>)

\* what the body of a worker can have done by the time it returns:
\*  - nothing, when newSnapshotNode fails (always when no layer holds the
\*    root) or newSnapshotTrieStorageManager fails, and for a snapshot when
\*    isActiveDb is false;
\*  - a part of the walk or all of it, when commitSnapshot / commitCheckpoint
\*    returns ErrContextClosing or another error;
\*  - all of the walk, when it returns nil
\*  - a panic, for a snapshot when isActiveDb panics: the deferred function
\*    of the worker still runs, then the runtime ends the process
WalkEffects(r) ==
    IF ~RootFound THEN {<<>>}
    ELSE IF reqs[r].kind = "snapshot" /\ isActiveDbPanics THEN {<<>>, <<"panic">>}
    ELSE IF reqs[r].kind = "snapshot" /\ ~isActiveDb THEN {<<>>}
    ELSE {<<>>, <<"persist">>, FullWalk(r)}

\* (mutant: the snapshot worker does not look at the activeDB marker)
WorkerFinishNoActiveCheck(r) ==
    /\ reqs[r].pc = "running"
    /\ \E eff \in IF RootFound THEN {<<>>, <<"persist">>, FullWalk(r)} ELSE {<<>>} :
         finishOperation(r, "ending", eff, WorkerFinished(r))
    /\ UNCHANGED <<aapVars, mgrVars, chanVars, dispVars, thr, extVars, calls, storeVars>>

\* (mutant: a worker whose body did nothing returns without finishing the
\* request)
WorkerFinishSkipOnFailure(r) ==
    /\ reqs[r].pc = "running"
    /\ \E eff \in WalkEffects(r) :
         IF eff = <<>>
           THEN /\ LockFree
                /\ reqs' = [reqs EXCEPT ![r].pc = "ending"]
                /\ UNCHANGED pruningBlockingOps
           ELSE finishOperation(r, "ending", eff, WorkerFinished(r))
    /\ UNCHANGED <<aapVars, mgrVars, chanVars, dispVars, thr, extVars, calls, storeVars>>

\* takeSnapshot / takeCheckpoint: the body, then the deferred finishOperation
WorkerFinish(r) ==
    /\ reqs[r].pc = "running"
    /\ \E eff \in WalkEffects(r) : finishOperation(r, "ending", eff, WorkerFinished(r))
    /\ UNCHANGED <<aapVars, mgrVars, chanVars, dispVars, thr, extVars, calls, storeVars>>

\* the deferred goRoutinesThrottler.EndProcessing()
WorkerEnd(r) ==
    /\ reqs[r].pc = "ending"
    /\ EndProcessing
    /\ reqs' = [reqs EXCEPT ![r].pc = "done", ![r].log = @ \o <<"end">>]
    /\ UNCHANGED <<aapVars, pruningBlockingOps, mgrVars, chanVars, dispVars, extVars, calls,
                   storeVars>>

\* -------------------------------------------------------------- Close
\* An error is the sequence of its parts: nil is <<>>; the error of a backend's
\* Close names the backend.
ErrNil == <<>>

CloseOf(store) == IF store \in closeFails THEN store ELSE ErrNil

\* closeOldTrieStorage: for _, sdb := range tsm.snapshots
RECURSIVE closeSnapshots(_, _)
closeSnapshots(i, err) ==
    IF i > Len(snapshots) THEN err
    ELSE LET errSnapshotClose == CloseOf(<<"snapshot", i>>)
         IN closeSnapshots(i + 1, IF errSnapshotClose # ErrNil THEN errSnapshotClose
                                  ELSE err)

\* the legacy backends, in the order closeOldTrieStorage closes them
LegacyStores == <<<<"db">>>> \o [i \in 1..Len(snapshots) |-> <<"snapshot", i>>]

\* closeOldTrieStorage: what it returns
closeOldTrieStorageErr == closeSnapshots(1, CloseOf(<<"db">>))

\* closeOldTrieStorage: db.Close(), every snapshot's Close(), oldStorageClosed = true
closeOldTrieStorage ==
    /\ oldStorageClosed' = TRUE
    /\ closeCalls' = [closeCalls EXCEPT !.db = @ + 1, !.snapshots = @ + 1]

\* fmt.Errorf("trieStorageManager close failed: %w", err)
Wrap(err) == <<"trieStorageManager close failed">> \o err

\* (mutant: closer.Close() is called at once instead of being deferred)
CloseBeginReleaseFirst ==
    /\ cpc = "idle"
    /\ cpc' = "cancelled"
    /\ ctxDone' = TRUE
    /\ closed' = TRUE
    /\ closerClosed' = TRUE
    /\ closeErr' = ErrNil
    /\ UNCHANGED <<aapVars, pruningBlockingOps, chanVars, dispVars, thr, reqs,
                   extVars, calls, mainStorer, checkpointsStorer, db, snapshots,
                   flagDisableOldStorage, oldStorageClosed, closeCalls, closeFails,
                   closeRet, hashesHolder, ret, putHist>>

\* Close(): Lock(); cancelFunc(); closed = true; var err error
CloseBegin ==
    /\ cpc = "idle"
    /\ cpc' = "cancelled"
    /\ ctxDone' = TRUE
    /\ closed' = TRUE
    /\ closeErr' = ErrNil
    /\ UNCHANGED <<aapVars, pruningBlockingOps, closerClosed, chanVars, dispVars, thr, reqs,
                   extVars, calls, mainStorer, checkpointsStorer, db, snapshots,
                   flagDisableOldStorage, oldStorageClosed, closeCalls, closeFails,
                   closeRet, hashesHolder, ret, putHist>>

\* Close(): if !tsm.flagDisableOldStorage.IsSet()
CloseCheckFlag ==
    /\ cpc = "cancelled"
    /\ cpc' = IF ~flagDisableOldStorage THEN "legacy" ELSE "main"
    /\ UNCHANGED <<aapVars, pruningBlockingOps, closed, ctxDone, closerClosed, chanVars, dispVars,
                   thr, reqs, extVars, calls, storeVars>>

\* Close(): err = tsm.closeOldTrieStorage()
CloseLegacy ==
    /\ cpc = "legacy"
    /\ cpc' = "main"
    /\ closeOldTrieStorage
    /\ closeErr' = closeOldTrieStorageErr
    /\ closeRet' = [closeRet EXCEPT !.attempted = @ \o LegacyStores]
    /\ UNCHANGED <<aapVars, pruningBlockingOps, closed, ctxDone, closerClosed, chanVars, dispVars,
                   thr, reqs, extVars, calls, mainStorer, checkpointsStorer, db,
                   snapshots, flagDisableOldStorage, closeFails, hashesHolder,
                   ret, putHist>>

\* (mutant: the first error is kept instead of the last)
CloseStoresFirstError ==
    /\ cpc = "main"
    /\ cpc' = "stores"
    /\ closeCalls' = [closeCalls EXCEPT !.main = @ + 1, !.checkpoints = @ + 1]
    /\ LET errMainStorerClose == CloseOf(<<"main">>)
           errCheckpointsStorerClose == CloseOf(<<"checkpoints">>)
           err1 == IF closeErr # ErrNil THEN closeErr ELSE errMainStorerClose
           err2 == IF err1 # ErrNil THEN err1 ELSE errCheckpointsStorerClose
       IN /\ closeErr' = err2
          /\ closeRet' = [attempted |-> closeRet.attempted \o <<<<"main">>, <<"checkpoints">>>>,
                          returned |-> TRUE,
                          err |-> IF err2 # ErrNil THEN Wrap(err2) ELSE ErrNil]
    /\ UNCHANGED <<aapVars, pruningBlockingOps, closed, ctxDone, closerClosed, chanVars, dispVars,
                   thr, reqs, extVars, calls, mainStorer, checkpointsStorer, db,
                   snapshots, flagDisableOldStorage, oldStorageClosed, closeFails,
                   hashesHolder, ret, putHist>>

\* Close(): mainStorer.Close(), checkpointsStorer.Close(), and the value returned
CloseStores ==
    /\ cpc = "main"
    /\ cpc' = "stores"
    /\ closeCalls' = [closeCalls EXCEPT !.main = @ + 1, !.checkpoints = @ + 1]
    /\ LET errMainStorerClose == CloseOf(<<"main">>)
           errCheckpointsStorerClose == CloseOf(<<"checkpoints">>)
           err1 == IF errMainStorerClose # ErrNil THEN errMainStorerClose ELSE closeErr
           err2 == IF errCheckpointsStorerClose # ErrNil THEN errCheckpointsStorerClose
                   ELSE err1
       IN /\ closeErr' = err2
          /\ closeRet' = [attempted |-> closeRet.attempted \o <<<<"main">>, <<"checkpoints">>>>,
                          returned |-> TRUE,
                          err |-> IF err2 # ErrNil THEN Wrap(err2) ELSE ErrNil]
    /\ UNCHANGED <<aapVars, pruningBlockingOps, closed, ctxDone, closerClosed, chanVars, dispVars,
                   thr, reqs, extVars, calls, mainStorer, checkpointsStorer, db,
                   snapshots, flagDisableOldStorage, oldStorageClosed, closeFails,
                   hashesHolder, ret, putHist>>

\* Close(): the deferred closer.Close(), then Unlock()
CloseEnd ==
    /\ cpc = "stores"
    /\ cpc' = "done"
    /\ closerClosed' = TRUE
    /\ UNCHANGED <<aapVars, pruningBlockingOps, closed, ctxDone, chanVars, dispVars, thr, reqs,
                   extVars, calls, storeVars>>

\* --------------------------------------- external users of the counter
\* In Spec the external callers (the accounts database's pruning) pair their
\* calls: an Exit only after an Enter of their own. Unpaired Exits are the
\* subject of SpecPrune.
ExternalEnter ==
    /\ LockFree
    /\ extOut < MaxExt
    /\ EnterPruningBufferingMode
    /\ extOut' = extOut + 1
    /\ UNCHANGED <<aapVars, ctor, mgrVars, chanVars, dispVars, thr, reqs, calls, storeVars>>

ExternalExit ==
    /\ LockFree
    /\ extOut > 0
    /\ ExitPruningBufferingMode
    /\ extOut' = extOut - 1
    /\ UNCHANGED <<aapVars, ctor, mgrVars, chanVars, dispVars, thr, reqs, calls, storeVars>>

\* --------------------------------------------------------------- Spec
\* the collaborators NewTrieStorageManager requires
Deps == {"DB", "MainStorer", "CheckpointsStorer", "Marshalizer", "Hasher",
         "CheckpointHashesHolder", "EpochNotifier"}

\* SnapshotDbConfig.FilePath names a directory that does not exist
NoSnapshotDir == [state |-> "missing", files |-> <<>>]

\* a manager built from complete arguments: the manager is there, it is
\* registered with the epoch notifier and its dispatcher goroutine runs
Constructed ==
    [present |-> Deps, goroutineNum |-> MaxConcurrent, notify |-> <<>>, called |-> TRUE,
     tsm |-> "tsm", err |-> ErrNil, registered |-> TRUE, loopStarted |-> TRUE,
     loops |-> 1, dirs |-> NoSnapshotDir, snapshotId |-> 0, snapErr |-> ErrNil]

NoRet == [op |-> "none", key |-> "", val |-> <<>>, err |-> "nil", afterRemove |-> FALSE]

\* the fields as NewTrieStorageManager sets them
InitFields ==
    /\ pruningBlockingOps = 0
    /\ closed = FALSE
    /\ ctxDone = FALSE
    /\ closerClosed = FALSE
    /\ cpc = "idle"
    /\ snapshotReq = <<>>
    /\ checkpointReq = <<>>
    /\ dpc = "select"
    /\ cur = 0
    /\ thr = 0
    /\ reqs = [r \in Reqs |-> NewReq]
    /\ extOut = 0
    /\ calls = <<>>
    /\ flagDisableOldStorage = FALSE
    /\ oldStorageClosed = FALSE
    /\ closeCalls = [db |-> 0, snapshots |-> 0, main |-> 0, checkpoints |-> 0]
    /\ closeErr = ErrNil
    /\ closeRet = [attempted |-> <<>>, returned |-> FALSE, err |-> ErrNil]
    /\ hashesHolder = {}
    /\ ret = NoRet
    /\ putHist = EmptyStore

\* no pool has been handed to the altered accounts provider
NoExtraction ==
    /\ txPool = {}
    /\ txsLeft = {}
    /\ markedAlteredAccounts = EmptyStore

InitManager ==
    /\ InitFields
    /\ ctor = Constructed
    /\ NoExtraction

Init ==
    /\ InitManager
    /\ bufLen \in 0..MaxBufLen
    /\ closeFails = {}
    /\ mainStorer = EmptyStore
    /\ checkpointsStorer = EmptyStore
    /\ db = EmptyStore
    /\ snapshots = <<>>

Next ==
    \/ \E r \in Reqs : TakeSnapshot(r)
    \/ \E r \in Reqs : SetCheckpoint(r)
    \/ \E r \in Reqs : Accept(r)
    \/ \E r \in Reqs : SendSnapshot(r)
    \/ \E r \in Reqs : SendCheckpoint(r)
    \/ \E r \in Reqs : SendAborted(r)
    \/ ReceiveSnapshot
    \/ ReceiveCheckpoint
    \/ LoopCancelled
    \/ ThrottlerCheck
    \/ ThrottlerRetry
    \/ ThrottlerCancelled
    \/ StartWorker
    \/ CleanupWait
    \/ CleanupSnapshot
    \/ CleanupCheckpoint
    \/ CleanupDone
    \/ \E r \in Reqs : WorkerFinish(r)
    \/ \E r \in Reqs : WorkerEnd(r)
    \/ CloseBegin
    \/ CloseCheckFlag
    \/ CloseLegacy
    \/ CloseStores
    \/ CloseEnd
    \/ ExternalEnter
    \/ ExternalExit

Spec == Init /\ [][Next]_vars

\* SpecWorker: the pipeline without the external users of the counter, over a
\* main storer that holds the root or not, and the activeDB marker or not
RootNode == <<1>>

MainContents ==
    {EmptyStore,
     [k \in {RootHash} |-> RootNode],
     [k \in {RootHash, activeDBKey} |-> IF k = RootHash THEN RootNode ELSE activeDBVal]}

InitWorker ==
    /\ InitManager
    /\ bufLen = MaxBufLen
    /\ closeFails = {}
    /\ mainStorer \in MainContents
    /\ checkpointsStorer = EmptyStore
    /\ db = EmptyStore
    /\ snapshots = <<>>

NextWorker ==
    \/ \E r \in Reqs : TakeSnapshot(r)
    \/ \E r \in Reqs : SetCheckpoint(r)
    \/ \E r \in Reqs : Accept(r)
    \/ \E r \in Reqs : SendSnapshot(r)
    \/ \E r \in Reqs : SendCheckpoint(r)
    \/ \E r \in Reqs : SendAborted(r)
    \/ ReceiveSnapshot
    \/ ReceiveCheckpoint
    \/ LoopCancelled
    \/ ThrottlerCheck
    \/ ThrottlerRetry
    \/ ThrottlerCancelled
    \/ StartWorker
    \/ CleanupWait
    \/ CleanupSnapshot
    \/ CleanupCheckpoint
    \/ CleanupDone
    \/ \E r \in Reqs : WorkerFinish(r)
    \/ \E r \in Reqs : WorkerEnd(r)
    \/ CloseBegin
    \/ CloseCheckFlag
    \/ CloseLegacy
    \/ CloseStores
    \/ CloseEnd

SpecWorker == InitWorker /\ [][NextWorker]_vars

\* SpecMarker: the pipeline over a main storer that holds the root and, under
\* the marker key, activeDBVal, an empty value or another value
OtherMarkerVal == <<110, 111>>

MarkerContents ==
    {[k \in {RootHash, activeDBKey} |-> IF k = RootHash THEN RootNode ELSE v] :
        v \in {activeDBVal, <<>>, OtherMarkerVal}}

InitMarker ==
    /\ InitManager
    /\ bufLen = MaxBufLen
    /\ closeFails = {}
    /\ mainStorer \in MarkerContents
    /\ checkpointsStorer = EmptyStore
    /\ db = EmptyStore
    /\ snapshots = <<>>

SpecMarker == InitMarker /\ [][NextWorker]_vars

\* SpecFair: the pipeline under the scheduling the Go runtime gives it. Every
\* goroutine that can take a step eventually takes one: the goroutine inside
\* Close(), each caller inside TakeSnapshot / SetCheckpoint, the dispatcher and
\* each worker. Whether and when TakeSnapshot, SetCheckpoint or Close() are
\* called at all is left to the environment.
CloseSteps == CloseCheckFlag \/ CloseLegacy \/ CloseStores \/ CloseEnd

CallerSteps(r) == Accept(r) \/ SendSnapshot(r) \/ SendCheckpoint(r) \/ SendAborted(r)

DispatcherSteps ==
    \/ ReceiveSnapshot
    \/ ReceiveCheckpoint
    \/ LoopCancelled
    \/ ThrottlerCheck
    \/ ThrottlerRetry
    \/ ThrottlerCancelled
    \/ StartWorker
    \/ CleanupWait
    \/ CleanupSnapshot
    \/ CleanupCheckpoint
    \/ CleanupDone

WorkerSteps(r) == WorkerFinish(r) \/ WorkerEnd(r)

Fairness ==
    /\ WF_vars(CloseSteps)
    /\ WF_vars(DispatcherSteps)
    /\ \A r \in Reqs : WF_vars(CallerSteps(r))
    /\ \A r \in Reqs : WF_vars(WorkerSteps(r))

SpecFair == Init /\ [][NextWorker]_vars /\ Fairness

\* SpecFifo: the pipeline with room for several requests in each channel
InitFifo ==
    /\ InitManager
    /\ bufLen = FifoBufLen
    /\ closeFails = {}
    /\ mainStorer = EmptyStore
    /\ checkpointsStorer = EmptyStore
    /\ db = EmptyStore
    /\ snapshots = <<>>

SpecFifo == InitFifo /\ [][NextWorker]_vars

\* ---------------------------------------------------------- SpecStore
\* The facade calls are explored on a manager that has not been closed: what a
\* backend answers after its Close() is the backend's business.
FacadeCall ==
    /\ LockFree
    /\ ~closed

\* (mutant: the checkpoint and legacy layers are consulted before the main store)
GetMainLast(key) ==
    /\ FacadeCall
    /\ LET other == getFromOtherStorers(key)
           val == StorerGet(mainStorer, key).val
           res == IF other.err = "nil" THEN other
                  ELSE IF Len(val) # 0 THEN Found(val) ELSE ErrKeyNotFound
       IN ret' = [op |-> "Get", key |-> key, val |-> res.val, err |-> res.err,
                  afterRemove |-> ret.op = "Remove" /\ ret.key = key]
    /\ UNCHANGED <<aapVars, pruningBlockingOps, mgrVars, chanVars, dispVars, thr, reqs, extVars,
                   calls, mainStorer, checkpointsStorer, db, snapshots,
                   flagDisableOldStorage, oldStorageClosed, closeVars, hashesHolder,
                   putHist>>

\* (mutant: a value found in another layer is copied into the main store)
GetFillMain(key) ==
    /\ FacadeCall
    /\ LET val == StorerGet(mainStorer, key).val
           res == IF Len(val) # 0 THEN Found(val) ELSE getFromOtherStorers(key)
       IN /\ ret' = [op |-> "Get", key |-> key, val |-> res.val, err |-> res.err,
                     afterRemove |-> ret.op = "Remove" /\ ret.key = key]
          /\ mainStorer' = IF Len(val) = 0 /\ res.err = "nil"
                             THEN StorerPut(mainStorer, key, res.val)
                             ELSE mainStorer
    /\ UNCHANGED <<aapVars, pruningBlockingOps, mgrVars, chanVars, dispVars, thr, reqs, extVars,
                   calls, checkpointsStorer, db, snapshots,
                   flagDisableOldStorage, oldStorageClosed, closeVars, hashesHolder,
                   putHist>>

Get(key) ==
    /\ FacadeCall
    /\ LET val == StorerGet(mainStorer, key).val
           res == IF Len(val) # 0 THEN Found(val) ELSE getFromOtherStorers(key)
       IN ret' = [op |-> "Get", key |-> key, val |-> res.val, err |-> res.err,
                  afterRemove |-> ret.op = "Remove" /\ ret.key = key]
    /\ UNCHANGED <<aapVars, pruningBlockingOps, mgrVars, chanVars, dispVars, thr, reqs, extVars,
                   calls, mainStorer, checkpointsStorer, db, snapshots,
                   flagDisableOldStorage, oldStorageClosed, closeVars, hashesHolder,
                   putHist>>

\* (mutant: the value is written to the checkpoint store as well)
PutThroughCheckpoints(key, val) ==
    /\ FacadeCall
    /\ mainStorer' = StorerPut(mainStorer, key, val)
    /\ checkpointsStorer' = StorerPut(checkpointsStorer, key, val)
    /\ putHist' = StorerPut(putHist, key, [val |-> val, marked |-> FALSE])
    /\ ret' = [op |-> "Put", key |-> key, val |-> val, err |-> "nil", afterRemove |-> FALSE]
    /\ UNCHANGED <<aapVars, pruningBlockingOps, mgrVars, chanVars, dispVars, thr, reqs, extVars,
                   calls, db, snapshots, flagDisableOldStorage,
                   oldStorageClosed, closeVars, hashesHolder>>

Put(key, val) ==
    /\ FacadeCall
    /\ mainStorer' = StorerPut(mainStorer, key, val)
    /\ putHist' = StorerPut(putHist, key, [val |-> val, marked |-> FALSE])
    /\ ret' = [op |-> "Put", key |-> key, val |-> val, err |-> "nil", afterRemove |-> FALSE]
    /\ UNCHANGED <<aapVars, pruningBlockingOps, mgrVars, chanVars, dispVars, thr, reqs, extVars,
                   calls, checkpointsStorer, db, snapshots, flagDisableOldStorage,
                   oldStorageClosed, closeVars, hashesHolder>>

\* (mutant: the hash is removed from the checkpoint store as well)
RemoveFromCheckpoints(hash) ==
    /\ FacadeCall
    /\ hashesHolder' = hashesHolder \ {hash}
    /\ mainStorer' = StorerRemove(mainStorer, hash)
    /\ checkpointsStorer' = StorerRemove(checkpointsStorer, hash)
    /\ putHist' = StorerRemove(putHist, hash)
    /\ ret' = [op |-> "Remove", key |-> hash, val |-> <<>>, err |-> "nil",
               afterRemove |-> FALSE]
    /\ UNCHANGED <<aapVars, pruningBlockingOps, mgrVars, chanVars, dispVars, thr, reqs, extVars,
                   calls, db, snapshots, flagDisableOldStorage,
                   oldStorageClosed, closeVars>>

Remove(hash) ==
    /\ FacadeCall
    /\ hashesHolder' = hashesHolder \ {hash}
    /\ mainStorer' = StorerRemove(mainStorer, hash)
    /\ putHist' = StorerRemove(putHist, hash)
    /\ ret' = [op |-> "Remove", key |-> hash, val |-> <<>>, err |-> "nil",
               afterRemove |-> FALSE]
    /\ UNCHANGED <<aapVars, pruningBlockingOps, mgrVars, chanVars, dispVars, thr, reqs, extVars,
                   calls, checkpointsStorer, db, snapshots, flagDisableOldStorage,
                   oldStorageClosed, closeVars>>

\* AddDirtyCheckpointHashes: the hashes modified under rootHash are handed to the
\* checkpoint hashes holder, which keeps them until they are committed or removed
AddDirtyCheckpointHashes(hash) ==
    /\ hashesHolder' = hashesHolder \cup {hash}
    /\ ret' = [op |-> "AddDirtyCheckpointHashes", key |-> hash, val |-> <<>>,
               err |-> "nil", afterRemove |-> FALSE]
    /\ UNCHANGED <<aapVars, pruningBlockingOps, mgrVars, chanVars, dispVars, thr, reqs, extVars,
                   calls, mainStorer, checkpointsStorer, db, snapshots,
                   flagDisableOldStorage, oldStorageClosed, closeVars, putHist>>

\* (mutant: the flag is only ever set, never recomputed)
EpochConfirmedStickyFlag(epoch) ==
    /\ flagDisableOldStorage' = (flagDisableOldStorage \/ epoch >= DisableOldStorageEpoch)
    /\ mainStorer' = StorerPut(mainStorer, activeDBKey, activeDBVal)
    /\ IF flagDisableOldStorage' /\ ~oldStorageClosed
         THEN closeOldTrieStorage
         ELSE UNCHANGED <<aapVars, oldStorageClosed, closeCalls>>
    /\ putHist' = IF activeDBKey \in DOMAIN putHist
                    THEN [putHist EXCEPT ![activeDBKey].marked = TRUE]
                    ELSE putHist
    /\ ret' = [op |-> "EpochConfirmed", key |-> "", val |-> <<epoch>>, err |-> "nil",
               afterRemove |-> FALSE]
    /\ UNCHANGED <<aapVars, pruningBlockingOps, mgrVars, chanVars, dispVars, thr, reqs, extVars,
                   calls, checkpointsStorer, db, snapshots, hashesHolder, closeFails,
                   closeErr, closeRet>>

\* EpochConfirmed takes no lock; the errors of the marker's Put and of
\* closeOldTrieStorage are only logged
EpochConfirmed(epoch) ==
    /\ flagDisableOldStorage' = (epoch >= DisableOldStorageEpoch)
    /\ mainStorer' = StorerPut(mainStorer, activeDBKey, activeDBVal)
    /\ IF flagDisableOldStorage' /\ ~oldStorageClosed
         THEN closeOldTrieStorage
         ELSE UNCHANGED <<aapVars, oldStorageClosed, closeCalls>>
    /\ putHist' = IF activeDBKey \in DOMAIN putHist
                    THEN [putHist EXCEPT ![activeDBKey].marked = TRUE]
                    ELSE putHist
    /\ ret' = [op |-> "EpochConfirmed", key |-> "", val |-> <<epoch>>, err |-> "nil",
               afterRemove |-> FALSE]
    /\ UNCHANGED <<aapVars, pruningBlockingOps, mgrVars, chanVars, dispVars, thr, reqs, extVars,
                   calls, checkpointsStorer, db, snapshots, hashesHolder, closeFails,
                   closeErr, closeRet>>

InitStore ==
    /\ InitManager
    /\ bufLen = MaxBufLen
    /\ closeFails = {}
    /\ mainStorer = EmptyStore
    /\ checkpointsStorer \in LayerContents(CheckpointVal)
    /\ db \in LayerContents(LegacyDbVal)
    /\ \E n \in 0..MaxSnapshots :
         snapshots \in [1..n -> UNION {LayerContents(SnapshotVal(i)) : i \in 1..n}]
    /\ \A i \in DOMAIN snapshots : snapshots[i] \in LayerContents(SnapshotVal(i))

NextStore ==
    \/ \E key \in Keys : Get(key)
    \/ \E key \in Keys, val \in PutVals : Put(key, val)
    \/ \E hash \in Keys : Remove(hash)
    \/ \E epoch \in 0..MaxEpoch : EpochConfirmed(epoch)
    \/ \E hash \in DataKeys : AddDirtyCheckpointHashes(hash)
    \/ CloseBegin
    \/ CloseCheckFlag
    \/ CloseLegacy
    \/ CloseStores
    \/ CloseEnd

SpecStore == InitStore /\ [][NextStore]_vars

\* ------------------------------------------------------------ SpecGet
\* Get over backends handed to the constructor with any content: a layer does
\* not hold the key (its Get fails), holds it with an empty value, or holds it
\* with a value
AnyContents(v) == {EmptyStore, [k \in DataKeys |-> <<>>], [k \in DataKeys |-> v]}

InitGet ==
    /\ InitManager
    /\ bufLen = MaxBufLen
    /\ closeFails = {}
    /\ mainStorer \in AnyContents(<<1>>)
    /\ checkpointsStorer \in AnyContents(CheckpointVal)
    /\ db \in AnyContents(LegacyDbVal)
    /\ \E n \in 0..MaxSnapshots :
         snapshots \in [1..n -> UNION {AnyContents(SnapshotVal(i)) : i \in 1..n}]
    /\ \A i \in DOMAIN snapshots : snapshots[i] \in AnyContents(SnapshotVal(i))

NextGet ==
    \/ \E key \in Keys : Get(key)
    \/ \E epoch \in 0..MaxEpoch : EpochConfirmed(epoch)

SpecGet == InitGet /\ [][NextGet]_vars

\* ---------------------------------------------------------- SpecClose
\* Close() and EpochConfirmed over backends whose Close may fail
AllStores == LegacyStores \o <<<<"main">>, <<"checkpoints">>>>

InitClose ==
    /\ InitManager
    /\ bufLen = MaxBufLen
    /\ mainStorer = EmptyStore
    /\ checkpointsStorer = EmptyStore
    /\ db = EmptyStore
    /\ \E n \in 0..MaxSnapshots : snapshots = [i \in 1..n |-> EmptyStore]
    /\ closeFails \in SUBSET {AllStores[i] : i \in DOMAIN AllStores}

NextClose ==
    \/ \E epoch \in 0..MaxEpoch : EpochConfirmed(epoch)
    \/ CloseBegin
    \/ CloseCheckFlag
    \/ CloseLegacy
    \/ CloseStores
    \/ CloseEnd

SpecClose == InitClose /\ [][NextClose]_vars

\* ------------------------------------------------------------ SpecNew
\* NewTrieStorageManager over every choice of present collaborators and
\* every SnapshotsGoroutineNum in 0..MaxConcurrent
NewArgs ==
    [present |-> {}, goroutineNum |-> 0, notify |-> <<>>, called |-> FALSE, tsm |-> "nil",
     err |-> ErrNil, registered |-> FALSE, loopStarted |-> FALSE, loops |-> 0,
     dirs |-> NoSnapshotDir, snapshotId |-> 0, snapErr |-> ErrNil]

\* throttler.NewNumGoRoutinesThrottler: a positive number of goroutines is required
NewNumGoRoutinesThrottlerErr(max) ==
    IF max <= 0 THEN <<"ErrNotPositiveValue">> ELSE ErrNil

\* A file name is a sequence of characters: 0..9 are the decimal digits, any
\* larger number is a character that is no digit.
IsDigit(c) == c \in 0..9

\* strconv.Atoi on a name the manager gave a generation (canonical decimal,
\* no sign): the error when a character is no digit
AtoiFails(name) == name = <<>> \/ \E i \in DOMAIN name : ~IsDigit(name[i])

RECURSIVE Atoi(_)
Atoi(name) ==
    IF Len(name) = 1 THEN name[1]
    ELSE 10 * Atoi(SubSeq(name, 1, Len(name) - 1)) + name[Len(name)]

\* ioutil.ReadDir returns the entries sorted by file name, byte by byte
RECURSIVE NameLeq(_, _)
NameLeq(a, b) ==
    IF a = <<>> THEN TRUE
    ELSE IF b = <<>> THEN FALSE
    ELSE IF a[1] < b[1] THEN TRUE
    ELSE IF a[1] > b[1] THEN FALSE
    ELSE NameLeq(Tail(a), Tail(b))

RECURSIVE ReadDir(_)
ReadDir(names) ==
    IF names = {} THEN <<>>
    ELSE LET first == CHOOSE n \in names : \A m \in names : NameLeq(n, m)
         IN <<first>> \o ReadDir(names \ {first})

\* the store storageUnit.NewDB opens on the directory of generation id: it
\* holds the data key with a value that names the generation
snapshotDb(id) == [k \in DataKeys |-> SnapshotVal(id)]

\* (mutant: the keys are put in descending order)
RECURSIVE getOrderedSnapshotsDescending(_)
getOrderedSnapshotsDescending(snapshotsMap) ==
    IF DOMAIN snapshotsMap = {} THEN <<>>
    ELSE LET key == CHOOSE k \in DOMAIN snapshotsMap :
                        \A o \in DOMAIN snapshotsMap : k >= o
         IN <<snapshotsMap[key]>> \o
            getOrderedSnapshotsDescending(
                [k \in DOMAIN snapshotsMap \ {key} |-> snapshotsMap[k]])

\* getOrderedSnapshots: the keys of the map, sort.Ints, then the stores in the
\* order of the keys
RECURSIVE getOrderedSnapshots(_)
getOrderedSnapshots(snapshotsMap) ==
    IF DOMAIN snapshotsMap = {} THEN <<>>
    ELSE LET key == CHOOSE k \in DOMAIN snapshotsMap :
                        \A o \in DOMAIN snapshotsMap : k <= o
         IN <<snapshotsMap[key]>> \o
            getOrderedSnapshots([k \in DOMAIN snapshotsMap \ {key} |-> snapshotsMap[k]])

\* getSnapshotsAndSnapshotId: for _, f := range files, from entry i on. An
\* entry that is no directory is skipped; a directory whose name is no number
\* or whose store does not open ends the loop with the error, the map and the
\* id as they are; past the last entry the id is incremented when the map
\* holds a store.
RECURSIVE RangeFiles(_, _, _, _)
RangeFiles(dirs, i, snapshotsMap, snapshotId) ==
    LET files == ReadDir(DOMAIN dirs.files)
    IN IF i > Len(files)
         THEN [snapshots |-> getOrderedSnapshots(snapshotsMap),
               snapshotId |-> IF DOMAIN snapshotsMap # {} THEN snapshotId + 1
                                                          ELSE snapshotId,
               err |-> ErrNil]
       ELSE LET name == files[i]
                kind == dirs.files[name]
            IN IF kind = "file" THEN RangeFiles(dirs, i + 1, snapshotsMap, snapshotId)
               ELSE IF AtoiFails(name)
                 THEN [snapshots |-> getOrderedSnapshots(snapshotsMap),
                       snapshotId |-> snapshotId, err |-> <<"strconv.Atoi">>]
               ELSE IF kind = "broken"
                 THEN [snapshots |-> getOrderedSnapshots(snapshotsMap),
                       snapshotId |-> snapshotId, err |-> <<"storageUnit.NewDB">>]
               ELSE LET snapshotName == Atoi(name)
                    IN RangeFiles(dirs, i + 1,
                           [k \in DOMAIN snapshotsMap \cup {snapshotName} |->
                              IF k = snapshotName THEN snapshotDb(snapshotName)
                                                  ELSE snapshotsMap[k]],
                           IF snapshotName > snapshotId THEN snapshotName
                                                        ELSE snapshotId)

getSnapshotsAndSnapshotId(dirs) ==
    IF dirs.state = "missing"
      THEN [snapshots |-> getOrderedSnapshots(<<>>), snapshotId |-> 0, err |-> ErrNil]
    ELSE IF dirs.state = "unreadable"
      THEN [snapshots |-> getOrderedSnapshots(<<>>), snapshotId |-> 0,
            err |-> <<"ioutil.ReadDir">>]
    ELSE RangeFiles(dirs, 1, <<>>, 0)

Failed(err) == [ctor EXCEPT !.called = TRUE, !.tsm = "nil", !.err = err]

\* (mutant: the hasher is looked at before the marshalizer)
NilCheckHasherFirst ==
    IF "DB" \notin ctor.present THEN <<"ErrNilDatabase">>
    ELSE IF "MainStorer" \notin ctor.present THEN <<"ErrNilStorer", "for main storer">>
    ELSE IF "CheckpointsStorer" \notin ctor.present
      THEN <<"ErrNilStorer", "for checkpoints storer">>
    ELSE IF "Hasher" \notin ctor.present THEN <<"ErrNilHasher">>
    ELSE IF "Marshalizer" \notin ctor.present THEN <<"ErrNilMarshalizer">>
    ELSE IF "CheckpointHashesHolder" \notin ctor.present
      THEN <<"ErrNilCheckpointHashesHolder">>
    ELSE IF "EpochNotifier" \notin ctor.present THEN <<"ErrNilEpochNotifier">>
    ELSE ErrNil

\* NewTrieStorageManager: the nil checks in their order
NilCheck ==
    IF "DB" \notin ctor.present THEN <<"ErrNilDatabase">>
    ELSE IF "MainStorer" \notin ctor.present THEN <<"ErrNilStorer", "for main storer">>
    ELSE IF "CheckpointsStorer" \notin ctor.present
      THEN <<"ErrNilStorer", "for checkpoints storer">>
    ELSE IF "Marshalizer" \notin ctor.present THEN <<"ErrNilMarshalizer">>
    ELSE IF "Hasher" \notin ctor.present THEN <<"ErrNilHasher">>
    ELSE IF "CheckpointHashesHolder" \notin ctor.present
      THEN <<"ErrNilCheckpointHashesHolder">>
    ELSE IF "EpochNotifier" \notin ctor.present THEN <<"ErrNilEpochNotifier">>
    ELSE ErrNil

\* the epoch notifier confirms an epoch to the handler while it registers it
Notified == ctor.notify # <<>>

\* flagDisableOldStorage after the registration: EpochConfirmed's Toggle on a
\* flag that is unset in a new manager
FlagAfterRegister == Notified /\ ctor.notify[1] >= DisableOldStorageEpoch

\* NewTrieStorageManager after the nil checks: the throttler, the registration
\* (during which EpochConfirmed may run), then either db.Close() at once when
\* the flag is set, or the enumeration of the legacy snapshots, and the
\* dispatcher goroutine
Construct(nilErr) ==
    /\ ~ctor.called
    /\ IF nilErr # ErrNil
         THEN /\ ctor' = Failed(nilErr)
              /\ UNCHANGED storeVars
       ELSE IF NewNumGoRoutinesThrottlerErr(ctor.goroutineNum) # ErrNil
         THEN /\ ctor' = Failed(NewNumGoRoutinesThrottlerErr(ctor.goroutineNum))
              /\ UNCHANGED storeVars
       ELSE
         /\ flagDisableOldStorage' = FlagAfterRegister
         /\ mainStorer' = IF Notified THEN StorerPut(mainStorer, activeDBKey, activeDBVal)
                                      ELSE mainStorer
         /\ oldStorageClosed' = FlagAfterRegister
         /\ closeCalls' =
              IF FlagAfterRegister
                THEN \* closeOldTrieStorage in EpochConfirmed, then tsm.db.Close()
                     [closeCalls EXCEPT !.db = @ + 2, !.snapshots = @ + 1]
                ELSE closeCalls
         /\ ctor' = IF FlagAfterRegister /\ CloseOf(<<"db">>) # ErrNil
                      THEN [ctor EXCEPT !.called = TRUE, !.tsm = "nil",
                                        !.err = CloseOf(<<"db">>), !.registered = TRUE]
                    ELSE IF FlagAfterRegister
                      THEN [ctor EXCEPT !.called = TRUE, !.tsm = "tsm",
                                        !.registered = TRUE, !.loopStarted = TRUE,
                                        !.loops = @ + 1]
                      ELSE [ctor EXCEPT !.called = TRUE, !.tsm = "tsm",
                                        !.registered = TRUE, !.loopStarted = TRUE,
                                        !.loops = @ + 1,
                                        !.snapshotId =
                                            getSnapshotsAndSnapshotId(ctor.dirs).snapshotId,
                                        !.snapErr =
                                            getSnapshotsAndSnapshotId(ctor.dirs).err]
         /\ snapshots' = IF FlagAfterRegister THEN snapshots
                         ELSE getSnapshotsAndSnapshotId(ctor.dirs).snapshots
         /\ UNCHANGED <<aapVars, checkpointsStorer, db, closeFails, closeErr, closeRet,
                        hashesHolder, ret, putHist>>
    /\ UNCHANGED <<aapVars, pruningBlockingOps, mgrVars, chanVars, dispVars, thr, reqs, extOut,
                   calls>>

NewTrieStorageManagerHasherFirst == Construct(NilCheckHasherFirst)

NewTrieStorageManager == Construct(NilCheck)

InitNew ==
    /\ InitFields
    /\ NoExtraction
    /\ bufLen = MaxBufLen
    /\ closeFails \in {{}, {<<"db">>}}
    /\ mainStorer = EmptyStore
    /\ checkpointsStorer = EmptyStore
    /\ db = EmptyStore
    /\ snapshots = <<>>
    /\ \E present \in SUBSET Deps, n \in 0..MaxConcurrent,
          notify \in {<<>>} \cup {<<e>> : e \in 0..MaxEpoch} :
         ctor = [NewArgs EXCEPT !.present = present, !.goroutineNum = n,
                                !.notify = notify]

NextNew == NewTrieStorageManager

SpecNew == InitNew /\ [][NextNew]_vars

\* ----------------------------------------------------- SpecSnapshots
\* NewTrieStorageManager with complete arguments over every content of the
\* snapshots directory: each name is absent, a plain file, the directory of a
\* store that opens or the directory of a store that does not open
DirNames == {<<0>>, <<1, 0>>, <<2>>, <<11>>}

EntryKinds == {"file", "dir", "broken"}

Listings ==
    {NoSnapshotDir, [state |-> "unreadable", files |-> <<>>]}
    \cup {[state |-> "read", files |-> f] :
            f \in UNION {[names -> EntryKinds] : names \in SUBSET DirNames}}

InitSnapshots ==
    /\ InitFields
    /\ NoExtraction
    /\ bufLen = MaxBufLen
    /\ closeFails = {}
    /\ mainStorer = EmptyStore
    /\ checkpointsStorer = EmptyStore
    /\ db = EmptyStore
    /\ snapshots = <<>>
    /\ \E dirs \in Listings, notify \in {<<>>, <<0>>, <<DisableOldStorageEpoch>>} :
         ctor = [NewArgs EXCEPT !.present = Deps, !.goroutineNum = MaxConcurrent,
                                !.notify = notify, !.dirs = dirs]

SpecSnapshots == InitSnapshots /\ [][NextNew]_vars

\* --------------------------------------------------------- SpecMarks
\* alteredAccountsProvider.extractAddressesWithBalanceChange over every pool of
\* at most MaxTxs transactions. An address is a sequence of bytes.
AddressLen == 2

SelfShard == 0

\* the empty address, one that is too short, two of the self shard, one of
\* another shard
Addresses == {<<>>, <<0>>, <<1, 0>>, <<2, 0>>, <<1, 1>>}

\* shardCoordinator.ComputeId: the shard is read off the end of the address
ComputeId(address) == IF address = <<>> THEN SelfShard ELSE address[Len(address)]

\* the four maps of outportcore.Pool, in the order they are gone through
Pools == <<"Txs", "Scrs", "Rewards", "Invalid">>

\* the transaction type each map is gone through with
TxType(pool) ==
    CASE pool = "Txs" -> "MoveBalance"
      [] pool = "Scrs" -> "SCInvoking"
      [] pool = "Rewards" -> "RewardTx"
      [] pool = "Invalid" -> "InvalidTransaction"

PoolIndex(pool) == CHOOSE i \in DOMAIN Pools : Pools[i] = pool

AllTxs == [snd : Addresses, rcv : Addresses, pool : {Pools[i] : i \in DOMAIN Pools}]

\* (mutant: an address already in the map gets the isSender of this occurrence)
addAddressWithBalanceChangeInMapOverwrite(marked, address, isSender) ==
    IF Len(address) # AddressLen THEN marked
    ELSE IF address \in DOMAIN marked
      THEN [marked EXCEPT ![address].isSender = isSender]
    ELSE [a \in DOMAIN marked \cup {address} |->
            IF a = address THEN [isSender |-> isSender, balanceChanged |-> TRUE]
                           ELSE marked[a]]

\* addAddressWithBalanceChangeInMap: the map after the call
addAddressWithBalanceChangeInMap(marked, address, isSender) ==
    IF Len(address) # AddressLen THEN marked
    ELSE IF address \in DOMAIN marked
      THEN [marked EXCEPT ![address].isSender = @ \/ isSender]
    ELSE [a \in DOMAIN marked \cup {address} |->
            IF a = address THEN [isSender |-> isSender, balanceChanged |-> TRUE]
                           ELSE marked[a]]

\* (mutant: the receiver is marked whatever the transaction type)
extractAddressesFromTxHandlerAnyType(marked, tx) ==
    LET withSender ==
          IF ComputeId(tx.snd) = SelfShard /\ Len(tx.snd) > 0
            THEN addAddressWithBalanceChangeInMap(marked, tx.snd, TRUE)
            ELSE marked
    IN IF ComputeId(tx.rcv) = SelfShard /\ Len(tx.rcv) > 0
         THEN addAddressWithBalanceChangeInMap(withSender, tx.rcv, FALSE)
         ELSE withSender

\* extractAddressesFromTxsHandlers, the body of the loop: the map after one
\* transaction has been visited
extractAddressesFromTxHandler(marked, tx) ==
    LET withSender ==
          IF ComputeId(tx.snd) = SelfShard /\ Len(tx.snd) > 0
            THEN addAddressWithBalanceChangeInMap(marked, tx.snd, TRUE)
            ELSE marked
    IN IF /\ TxType(tx.pool) # "InvalidTransaction"
          /\ ComputeId(tx.rcv) = SelfShard
          /\ Len(tx.rcv) > 0
         THEN addAddressWithBalanceChangeInMap(withSender, tx.rcv, FALSE)
         ELSE withSender

\* extractAddressesWithBalanceChange goes through Txs, Scrs, Rewards, Invalid
\* in this order; inside one map the range loop visits in any order
extractAddressesFromTxsHandlers ==
    \E tx \in txsLeft :
        /\ \A other \in txsLeft : PoolIndex(tx.pool) <= PoolIndex(other.pool)
        /\ markedAlteredAccounts' = extractAddressesFromTxHandler(markedAlteredAccounts, tx)
        /\ txsLeft' = txsLeft \ {tx}
        /\ UNCHANGED <<pruningBlockingOps, mgrVars, chanVars, dispVars, thr, reqs,
                       extVars, calls, storeVars, txPool>>

InitMarks ==
    /\ InitFields
    /\ ctor = Constructed
    /\ bufLen = MaxBufLen
    /\ closeFails = {}
    /\ mainStorer = EmptyStore
    /\ checkpointsStorer = EmptyStore
    /\ db = EmptyStore
    /\ snapshots = <<>>
    /\ \E n \in 0..MaxTxs : \E f \in [1..n -> AllTxs] : txPool = {f[i] : i \in 1..n}
    /\ txsLeft = txPool
    /\ markedAlteredAccounts = EmptyStore

NextMarks == extractAddressesFromTxsHandlers

SpecMarks == InitMarks /\ [][NextMarks]_vars

\* ---------------------------------------------------------- SpecPrune
\* any sequence of at most MaxCalls Enter/Exit calls on a fresh manager
PruneEnter ==
    /\ Len(calls) < MaxCalls
    /\ LockFree
    /\ EnterPruningBufferingMode
    /\ calls' = Append(calls, "E")
    /\ UNCHANGED <<aapVars, mgrVars, chanVars, dispVars, thr, reqs, extVars, storeVars>>

PruneExit ==
    /\ Len(calls) < MaxCalls
    /\ LockFree
    /\ ExitPruningBufferingMode
    /\ calls' = Append(calls, "X")
    /\ UNCHANGED <<aapVars, mgrVars, chanVars, dispVars, thr, reqs, extVars, storeVars>>

NextPrune ==
    \/ PruneEnter
    \/ PruneExit

SpecPrune == Init /\ [][NextPrune]_vars

\* ============================================================ claims
Count(seq, e) == Cardinality({i \in DOMAIN seq : seq[i] = e})

\* TakeSnapshot/SetCheckpoint incremented the counter for r
Accepted(r) == Count(reqs[r].log, "enter") > 0

Released(r) == Count(reqs[r].log, "exit") > 0

\* leaf sink closed (if any), stats marked finished, pruning block released
Finished(r) ==
    /\ Released(r)
    /\ Count(reqs[r].log, "stats") > 0
    /\ reqs[r].sink => Count(reqs[r].log, "close") > 0

\* what an immediate rejection does: close the sink if any, mark stats finished
Rejection(r) == (IF reqs[r].sink THEN <<"close">> ELSE <<>>) \o <<"stats">>

\* Close() has returned, the dispatcher and its drain have returned, no worker is
\* left and no TakeSnapshot/SetCheckpoint call is in progress: nothing can act on
\* a request any more
Quiescent ==
    /\ cpc = "done"
    /\ dpc = "done"
    /\ \A r \in Reqs : reqs[r].pc \in {"idle", "queued", "done"}

\* C1: every accepted request is eventually finished. Stated on the runs that
\* have come to rest: once the manager is quiescent every request that was
\* accepted has been finished (sink closed, stats finished, block released).
C1_AcceptedIsFinished ==
    Quiescent => \A r \in Reqs : Accepted(r) => Finished(r)

\* C2: no request is finished more than once: its sink is closed at most once,
\* its stats are marked finished at most once and ExitPruningBufferingMode is
\* called at most once on its behalf.
C2_FinishedAtMostOnce ==
    \A r \in Reqs :
        /\ Count(reqs[r].log, "close") <= 1
        /\ Count(reqs[r].log, "stats") <= 1
        /\ Count(reqs[r].log, "exit") <= 1

\* two accepted requests, one finished by its worker and one finished without a
\* worker (cancelled throttler wait, drain or enqueue-versus-shutdown)
C2_Witness ==
    \E r1, r2 \in Reqs :
        /\ Finished(r1) /\ Count(reqs[r1].log, "spawn") = 1
        /\ Accepted(r2) /\ Finished(r2) /\ Count(reqs[r2].log, "spawn") = 0

\* C3: the increment never leaks: in every quiescent state after Close() both
\* queues are empty and the counter equals the outstanding external Enters.
C3_NoLeakAfterClose ==
    Quiescent =>
        /\ snapshotReq = <<>>
        /\ checkpointReq = <<>>
        /\ pruningBlockingOps = extOut

\* C4: the throttler's count stays within 0..maxConcurrent and at most
\* maxConcurrent workers hold a slot.
C4_AtMostMaxConcurrent ==
    /\ thr \in 0..MaxConcurrent
    /\ Cardinality({r \in Reqs : reqs[r].pc \in {"running", "ending"}}) <= MaxConcurrent

\* every slot taken while the dispatcher holds a further request
C4_Witness ==
    /\ thr = MaxConcurrent
    /\ dpc = "sleep"
    /\ cur # 0

\* C5: a TakeSnapshot/SetCheckpoint call with the empty-trie root closes the
\* sink (if any) and marks stats finished before it returns, puts nothing on a
\* queue, does not call the tracker and leaves the counter unchanged.
C5_EmptyRootRejected ==
    [][\A r \in Reqs :
         (reqs[r].pc = "idle" /\ reqs'[r].pc # "idle" /\ reqs'[r].empty) =>
            /\ reqs'[r].pc = "done"
            /\ reqs'[r].log = (IF reqs'[r].sink THEN <<"close">> ELSE <<>>) \o <<"stats">>
            /\ UNCHANGED <<pruningBlockingOps, snapshotReq, checkpointReq, dispVars, thr,
                           hashesHolder>>]_vars

\* an empty-root checkpoint with a sink was rejected by an open manager
C5_Witness ==
    /\ ~closed
    /\ \E r \in Reqs :
         /\ reqs[r].empty /\ reqs[r].sink /\ reqs[r].kind = "checkpoint"
         /\ reqs[r].pc = "done"
         /\ reqs[r].log = <<"close", "stats">>

\* C6: a TakeSnapshot/SetCheckpoint call that starts after Close() has returned
\* closes the sink and marks stats finished synchronously, enqueues nothing,
\* has no worker spawned, touches no store or tracker and leaves the counter
\* unchanged.
C6_RejectedAfterClose ==
    [][\A r \in Reqs :
         (cpc = "done" /\ reqs[r].pc = "idle" /\ reqs'[r].pc # "idle") =>
            /\ reqs'[r].pc = "done"
            /\ reqs'[r].log = (IF reqs'[r].sink THEN <<"close">> ELSE <<>>) \o <<"stats">>
            /\ UNCHANGED <<pruningBlockingOps, chanVars, dispVars, thr, storeVars>>]_vars

\* a snapshot of a non-empty root was rejected after Close()
C6_Witness ==
    /\ cpc = "done"
    /\ \E r \in Reqs :
         /\ ~reqs[r].empty /\ reqs[r].sink /\ reqs[r].kind = "snapshot"
         /\ reqs[r].pc = "done"
         /\ reqs[r].log = <<"close", "stats">>

\* C8: with external callers pairing their Enter/Exit calls, the counter equals
\* the outstanding external Enters plus the requests accepted and not yet
\* released, so pruning is blocked from acceptance until the request is finished.
C8_BlockedWhileInFlight ==
    /\ pruningBlockingOps =
          extOut + Cardinality({r \in Reqs : Accepted(r) /\ ~Released(r)})
    /\ \A r \in Reqs : (Accepted(r) /\ ~Finished(r)) => IsPruningBlocked

\* a worker runs for one request while another is accepted and an external
\* Enter is outstanding
C8_Witness ==
    /\ extOut = 1
    /\ pruningBlockingOps = 3
    /\ \E r \in Reqs : reqs[r].pc = "running"

\* Enters minus Exits among the calls after the first j
Balance(j) ==
    Cardinality({i \in (j + 1)..Len(calls) : calls[i] = "E"})
  - Cardinality({i \in (j + 1)..Len(calls) : calls[i] = "X"})

\* the value of a counter that starts at zero, goes up on Enter and down on Exit
\* except at zero: the largest balance over the suffixes of the call sequence
Floored ==
    CHOOSE m \in {Balance(j) : j \in 0..Len(calls)} :
        \A j \in 0..Len(calls) : Balance(j) <= m

EntersThenExits(n) ==
    /\ Len(calls) = 2 * n
    /\ \A i \in 1..n : calls[i] = "E"
    /\ \A i \in (n + 1)..(2 * n) : calls[i] = "X"

\* C7: over every sequence of Enter/Exit calls the counter never goes below
\* zero and an Exit at zero leaves it at zero (it is the floored balance of the
\* calls); N Enters then N Exits leave pruning unblocked; pruning is blocked
\* exactly when the counter is non-zero (3 Enters and 2 Exits: blocked, one more
\* Exit: not blocked).
C7_CounterFlooredAtZero ==
    /\ pruningBlockingOps >= 0
    /\ pruningBlockingOps = Floored
    /\ IsPruningBlocked <=> (Floored # 0)
    /\ \A n \in 0..MaxCalls : EntersThenExits(n) => ~IsPruningBlocked
    /\ calls = <<"E", "E", "E", "X", "X">> => IsPruningBlocked
    /\ calls = <<"E", "E", "E", "X", "X", "X">> => ~IsPruningBlocked

\* an Exit at zero, then three Enters and two Exits: pruning is blocked
C7_Witness ==
    /\ calls = <<"X", "E", "E", "E", "X", "X">>
    /\ pruningBlockingOps = 1
    /\ IsPruningBlocked

Reverse(seq) == [i \in 1..Len(seq) |-> seq[Len(seq) + 1 - i]]

\* the layers Get may consult, in priority order
ActiveLayers ==
    <<mainStorer, checkpointsStorer>> \o
        (IF flagDisableOldStorage THEN <<>> ELSE <<db>> \o Reverse(snapshots))

Lowest(S) == CHOOSE i \in S : \A j \in S : i <= j

\* the last call was Get and it answered with the first active layer among
\* those in H, or with not-found when there is none
AnsweredFromFirst(H) ==
    IF H = {} THEN ret.val = <<>> /\ ret.err = "ErrKeyNotFound"
    ELSE ret.val = ActiveLayers[Lowest(H)][ret.key] /\ ret.err = "nil"

\* C9 as claimed: Get returns the value of the first layer that holds the key
\* (main, checkpoint, then unless legacy is disabled the legacy db and the
\* generations newest first), and not-found only when no active layer holds it.
C9_GetFirstLayerHoldingKey ==
    ret.op = "Get" =>
        AnsweredFromFirst({i \in DOMAIN ActiveLayers : ret.key \in DOMAIN ActiveLayers[i]})

\* C9 as amended: Get returns the value of the first layer, in that order, that
\* holds the key with a non-empty value, and not-found only when no active layer
\* holds a non-empty value for the key.
C9_GetFirstLayerWithValue ==
    ret.op = "Get" =>
        AnsweredFromFirst({i \in DOMAIN ActiveLayers :
                             /\ ret.key \in DOMAIN ActiveLayers[i]
                             /\ Len(ActiveLayers[i][ret.key]) # 0})

\* Get passed over the main store, which holds the key with an empty value, and
\* over the newest generation, and answered from the older one
C9_Witness ==
    /\ ret.op = "Get"
    /\ ret.key \in DOMAIN mainStorer
    /\ mainStorer[ret.key] = <<>>
    /\ Len(snapshots) = 2
    /\ ret.val = SnapshotVal(1)
    /\ ret.err = "nil"

\* C10 as claimed: for every key and value, Put(k, v) followed by Get(k) with no
\* Put/Remove of k in between returns v.
C10_GetAfterPut ==
    (ret.op = "Get" /\ ret.key \in DOMAIN putHist) =>
        (ret.val = putHist[ret.key].val /\ ret.err = "nil")

\* C10 as amended: for every key and non-empty value, Put(k, v) followed by
\* Get(k) with no Put/Remove of k in between, and no EpochConfirmed in between
\* when k is the activeDB marker key, returns v.
C10_GetAfterPutNonEmpty ==
    (/\ ret.op = "Get"
     /\ ret.key \in DOMAIN putHist
     /\ Len(putHist[ret.key].val) # 0
     /\ ~putHist[ret.key].marked) =>
        (ret.val = putHist[ret.key].val /\ ret.err = "nil")

\* Get returned the value Put into the main store although the checkpoint store
\* and the legacy db hold other values for the key
C10_Witness ==
    /\ ret.op = "Get"
    /\ ret.key \in DOMAIN putHist
    /\ ret.val = <<1>>
    /\ putHist[ret.key].val = <<1>>
    /\ ret.key \in DOMAIN checkpointsStorer
    /\ checkpointsStorer[ret.key] = CheckpointVal
    /\ ret.key \in DOMAIN db
    /\ db[ret.key] = LegacyDbVal

\* ---- C11
\* the legacy layers (db and snapshot generations) that hold the key
LegacyHolders(k) ==
    (IF k \in DOMAIN db THEN {db[k]} ELSE {})
      \cup {snapshots[i][k] : i \in {j \in DOMAIN snapshots : k \in DOMAIN snapshots[j]}}

OnlyInLegacy(k) ==
    /\ k \notin DOMAIN mainStorer
    /\ k \notin DOMAIN checkpointsStorer
    /\ LegacyHolders(k) # {}

OnlyInCheckpoints(k) ==
    /\ k \notin DOMAIN mainStorer
    /\ k \in DOMAIN checkpointsStorer
    /\ LegacyHolders(k) = {}

C12_FlagNeverReset == [][flagDisableOldStorage => flagDisableOldStorage']_vars

\* ---- C13
\* C13: legacy storage is closed at most once: over every history of
\* EpochConfirmed and Close() calls, Close is invoked at most once on the
\* legacy db and on each legacy snapshot store.
C13_LegacyClosedAtMostOnce ==
    /\ closeCalls.db <= 1
    /\ closeCalls.snapshots <= 1

\* ---- C14
\* the state the claim says storageOperationMutex guards
Guarded ==
    <<closed, flagDisableOldStorage, oldStorageClosed, pruningBlockingOps, closeCalls,
      mainStorer, hashesHolder>>

\* C14: the guarded state (closed, flagDisableOldStorage, oldStorageClosed,
\* pruningBlockingOps, the stores and their closing) is read and written only
\* under storageOperationMutex: while Close() holds the lock, no step of
\* another operation (EpochConfirmed, Get, Put, Remove) changes it.
C14_GuardedByTheLock ==
    [][(cpc' = cpc /\ Guarded' # Guarded) => LockFree]_vars

\* ---- C15
\* C15: every EpochConfirmed(epoch) step sets flagDisableOldStorage to exactly
\* (epoch >= DisableOldStorageEpoch) and leaves the activeDB marker in the
\* main store, whether or not the threshold is reached; if the flag is then
\* set and the legacy storage was not yet closed, it closes the legacy db and
\* the snapshot stores and sets oldStorageClosed, and otherwise it closes
\* nothing.
C15_EpochConfirmedEffect ==
    [][(cpc' = cpc /\ ret'.op = "EpochConfirmed") =>
         /\ flagDisableOldStorage' = (ret'.val[1] >= DisableOldStorageEpoch)
         /\ activeDBKey \in DOMAIN mainStorer'
         /\ mainStorer'[activeDBKey] = activeDBVal
         /\ IF flagDisableOldStorage' /\ ~oldStorageClosed
              THEN /\ oldStorageClosed'
                   /\ closeCalls'.db = closeCalls.db + 1
                   /\ closeCalls'.snapshots = closeCalls.snapshots + 1
              ELSE UNCHANGED <<oldStorageClosed, closeCalls>>]_vars

\* an epoch below the threshold was confirmed after the migration: the flag
\* is recomputed, the marker is there, the legacy storage stays closed once
C15_Witness ==
    /\ ret.op = "EpochConfirmed"
    /\ ret.val[1] < DisableOldStorageEpoch
    /\ ~flagDisableOldStorage
    /\ oldStorageClosed
    /\ closeCalls.db = 1
    /\ cpc = "idle"
    /\ mainStorer[activeDBKey] = activeDBVal

\* ---- C16
\* the layers below the main store
LowerLayers == <<checkpointsStorer, db, snapshots>>

\* the manager's flags, counter and queues
ManagerState ==
    <<pruningBlockingOps, closed, flagDisableOldStorage, oldStorageClosed, closeCalls,
      snapshotReq, checkpointReq>>

\* C16: a Put(key, value) step writes the value under the key in the main
\* store and changes neither the checkpoint store, the legacy db, the legacy
\* snapshot stores, the checkpoint-hash tracker, pruningBlockingOps nor the
\* closed / flagDisableOldStorage / oldStorageClosed flags.
C16_PutWritesMainOnly ==
    [][(cpc' = cpc /\ ret'.op = "Put") =>
         /\ mainStorer' = StorerPut(mainStorer, ret'.key, ret'.val)
         /\ UNCHANGED <<LowerLayers, hashesHolder, ManagerState>>]_vars

\* a Put was made over a key that the checkpoint store, the legacy db and the
\* tracker hold too
C16_Witness ==
    /\ ret.op = "Put"
    /\ ret.key \in DOMAIN mainStorer
    /\ mainStorer[ret.key] = <<1>>
    /\ ret.key \in DOMAIN checkpointsStorer
    /\ ret.key \in DOMAIN db
    /\ ret.key \in hashesHolder

C18_GetReadOnly ==
    [][(cpc' = cpc /\ ret'.op = "Get") =>
         UNCHANGED <<mainStorer, LowerLayers, hashesHolder, ManagerState>>]_vars

\* a Get missed the main store and was answered by the checkpoint store
C18_Witness ==
    /\ ret.op = "Get"
    /\ ret.key \notin DOMAIN mainStorer
    /\ ret.key \in DOMAIN checkpointsStorer
    /\ ret.val = CheckpointVal
    /\ ~ret.afterRemove
    /\ ret.key \in hashesHolder

\* ---- C19
\* C19: Close() releases the shutdown broadcast (closer) as its last state
\* change: whenever the closer is closed, closed is true, the dispatcher's
\* context is cancelled, Close() has called Close on the main and checkpoint
\* stores and has returned from the store-closing part, and the legacy
\* storage has been closed (by Close() if the flag was unset when it looked,
\* by the migration otherwise).
C19_CloserReleasedLast ==
    closerClosed =>
      /\ closed
      /\ ctxDone
      /\ cpc = "done"
      /\ closeRet.returned
      /\ closeCalls.main = 1
      /\ closeCalls.checkpoints = 1
      /\ oldStorageClosed
      /\ closeCalls.db >= 1

\* Close() ran after the migration: it skipped the legacy stores, closed the
\* other two and released the closer
C19_Witness ==
    /\ closerClosed
    /\ flagDisableOldStorage
    /\ closeCalls = [db |-> 1, snapshots |-> 1, main |-> 1, checkpoints |-> 1]

\* ---- C20
Highest(S) == CHOOSE x \in S : \A y \in S : y <= x

\* the error of the last failing Close among the given backends, wrapped
LastFailure(stores) ==
    LET F == {i \in DOMAIN stores : stores[i] \in closeFails}
    IN IF F = {} THEN ErrNil
       ELSE <<"trieStorageManager close failed">> \o stores[Highest(F)]

\* C20: Close() calls Close on every closable store whatever failed before:
\* the legacy db and each legacy snapshot store (skipped only when the legacy
\* storage was already closed), then the main store, then the checkpoint
\* store; it returns nil iff every attempted Close succeeded and otherwise
\* the error of the last failing one in that order, wrapped.
C20_CloseAttemptsAllLastErrorWins ==
    closeRet.returned =>
      /\ closeRet.attempted \in {AllStores, <<<<"main">>, <<"checkpoints">>>>}
      /\ closeRet.attempted # AllStores => closeCalls.db >= 1
      /\ closeRet.err = LastFailure(closeRet.attempted)
      /\ closeRet.err = ErrNil <=>
            \A i \in DOMAIN closeRet.attempted : closeRet.attempted[i] \notin closeFails

\* the db, the first snapshot and the main store failed to close, the
\* checkpoint store closed: every store was tried and the main store's error
\* is returned
C20_Witness ==
    /\ closeRet.returned
    /\ Len(snapshots) = 2
    /\ closeFails = {<<"db">>, <<"snapshot", 1>>, <<"main">>}
    /\ closeRet.attempted = AllStores
    /\ closeRet.err = <<"trieStorageManager close failed", "main">>

\* ---- C21
\* the order in which the collaborators are required, and the error of each
DepOrder ==
    <<"DB", "MainStorer", "CheckpointsStorer", "Marshalizer", "Hasher",
      "CheckpointHashesHolder", "EpochNotifier">>

DepErr ==
    <<<<"ErrNilDatabase">>, <<"ErrNilStorer", "for main storer">>,
      <<"ErrNilStorer", "for checkpoints storer">>, <<"ErrNilMarshalizer">>,
      <<"ErrNilHasher">>, <<"ErrNilCheckpointHashesHolder">>, <<"ErrNilEpochNotifier">>>>

Missing == {i \in DOMAIN DepOrder : DepOrder[i] \notin ctor.present}

\* C21: when a required collaborator is absent NewTrieStorageManager returns a
\* nil manager and the error of the first missing one in the order legacy DB,
\* main storer, checkpoints storer, marshalizer, hasher, checkpoint-hash
\* tracker, epoch notifier, the errors being pairwise different; it then
\* neither registers with the epoch notifier nor starts the dispatcher loop.
C21_ConstructorFailsFast ==
    /\ \A i, j \in DOMAIN DepErr : i # j => DepErr[i] # DepErr[j]
    /\ (ctor.called /\ Missing # {}) =>
          /\ ctor.tsm = "nil"
          /\ ctor.err = DepErr[Lowest(Missing)]
          /\ ~ctor.registered
          /\ ~ctor.loopStarted

\* the marshalizer and the hasher were both missing: the marshalizer's error
C21_Witness ==
    /\ ctor.called
    /\ ctor.present = Deps \ {"Marshalizer", "Hasher"}
    /\ ctor.err = <<"ErrNilMarshalizer">>
    /\ ctor.tsm = "nil"

\* ---- C22
\* a worker was started for r and its walk persisted nodes
Persisted(r) == Count(reqs[r].log, "persist") > 0

\* C22: when no snapshot has ever been taken (the manager starts without
\* snapshot stores), the first checkpoint that is processed creates the
\* initial snapshot-backed store: once a checkpoint worker has persisted its
\* nodes the manager has a snapshot store.
C22_FirstCheckpointCreatesStore ==
    \A r \in Reqs :
        (reqs[r].kind = "checkpoint" /\ Persisted(r) /\ reqs[r].pc = "done")
            => Len(snapshots) >= 1

\* ---- C23
\* the position of the only occurrence of e in the log of r
At(r, e) == CHOOSE i \in DOMAIN reqs[r].log : reqs[r].log[i] = e

Spawned(r) == Count(reqs[r].log, "spawn") > 0

Ended(r) == Count(reqs[r].log, "end") > 0

\* C23: whatever its body did (nothing, a part of the walk, all of it), a
\* worker finishes its request once and then releases its throttler slot
\* once: EndProcessing is called only for a started worker and only after the
\* request has been finished, a worker that is through has called it exactly
\* once, and the throttler counts exactly the started workers that have not
\* called it yet.
C23_WorkerFinishesThenReleases ==
    /\ \A r \in Reqs :
          /\ Count(reqs[r].log, "spawn") <= 1
          /\ Count(reqs[r].log, "end") <= 1
          /\ Ended(r) =>
                /\ Spawned(r)
                /\ Finished(r)
                /\ Count(reqs[r].log, "exit") = 1
                /\ Count(reqs[r].log, "stats") = 1
                /\ At(r, "spawn") < At(r, "exit")
                /\ At(r, "stats") < At(r, "end")
          /\ (Spawned(r) /\ reqs[r].pc = "done") => Ended(r)
    /\ thr = Cardinality({r \in Reqs : Spawned(r) /\ ~Ended(r)})

\* two workers are through, one whose walk persisted nodes and one whose body
\* did nothing; both slots are free again
C23_Witness ==
    /\ thr = 0
    /\ \E r1, r2 \in Reqs :
          /\ Ended(r1) /\ Persisted(r1)
          /\ Ended(r2) /\ ~Persisted(r2)

\* the request no longer sits in a queue
InNoQueue(r) ==
    /\ \A i \in DOMAIN snapshotReq : snapshotReq[i] # r
    /\ \A i \in DOMAIN checkpointReq : checkpointReq[i] # r

LoopOver == {"cleanup", "drain", "done"}

C25_NoEnqueueAfterBroadcast ==
    /\ [][closerClosed => /\ Len(snapshotReq') <= Len(snapshotReq)
                          /\ Len(checkpointReq') <= Len(checkpointReq)]_vars
    /\ [](dpc = "done" => (snapshotReq = <<>> /\ checkpointReq = <<>>))

\* the call for r is inside TakeSnapshot / SetCheckpoint: past the closed check
\* and not yet returned
InCall(r) == reqs[r].pc \in {"checked", "select"}

\* nothing is left to do: Close() has returned, the dispatcher goroutine has
\* ended, every call has returned and every started worker has ended
Terminated ==
    /\ cpc = "done"
    /\ dpc = "done"
    /\ \A r \in Reqs : reqs[r].pc \in {"queued", "done"}

\* C26: under weak fairness of every goroutine, a Close() that has begun
\* returns; a TakeSnapshot / SetCheckpoint call that is in progress when the
\* manager is being closed, in particular one blocked in its select on a full
\* queue when the closer is released, returns; and the goroutines never
\* deadlock: a state in which no goroutine can step is one where Close() has
\* returned, the dispatcher has ended and no call or worker is in progress.
C26_NoCallerBlocksForever ==
    /\ (cpc # "idle") ~> (cpc = "done")
    /\ \A r \in Reqs : (InCall(r) /\ closed) ~> ~InCall(r)
    /\ \A r \in Reqs : (reqs[r].pc = "select" /\ closerClosed) ~> (reqs[r].pc # "select")
    /\ []((~ENABLED NextWorker) => Terminated)

\* Close() has returned and a call that had been accepted came back through
\* the closer case of its select: counter released, nothing enqueued, no
\* finishOperation message
C26_Witness ==
    /\ cpc = "done"
    /\ \E r \in Reqs :
          /\ reqs[r].pc = "done"
          /\ Accepted(r) /\ Finished(r) /\ ~Spawned(r)
          /\ reqs[r].msg = ""
          /\ InNoQueue(r)

\* C27: a snapshot worker that finds its root but whose target store does not
\* hold the activeDB marker abandons the snapshot: it persists no node and
\* emits no leaf, and still finishes the request exactly once (counter
\* released, sink closed, stats marked, message "trie snapshot finished") and
\* releases its throttler slot exactly once.
C27_InactiveTargetAbandons ==
    \A r \in Reqs :
        (reqs[r].kind = "snapshot" /\ Spawned(r) /\ ~isActiveDb) =>
            /\ Count(reqs[r].log, "persist") = 0
            /\ Count(reqs[r].log, "leaf") = 0
            /\ reqs[r].pc \in {"running", "ending", "done"}
            /\ reqs[r].pc # "running" =>
                  /\ Finished(r)
                  /\ Count(reqs[r].log, "exit") = 1
                  /\ reqs[r].msg = "trie snapshot finished"
            /\ reqs[r].pc = "done" <=> Count(reqs[r].log, "end") = 1
            /\ Count(reqs[r].log, "end") <= 1

\* the root is there, the marker is not, and a snapshot worker with a leaf
\* sink has come and gone: nothing written, request finished, slot free
C27_Witness ==
    /\ RootFound
    /\ ~isActiveDb
    /\ thr = 0
    /\ \E r \in Reqs :
          /\ reqs[r].kind = "snapshot"
          /\ reqs[r].sink
          /\ Spawned(r) /\ Ended(r) /\ Finished(r)
          /\ ~Persisted(r)
          /\ Count(reqs[r].log, "leaf") = 0

\* the call for r has reached the select that tries to enqueue its entry
AtEnqueue(r) == reqs[r].pc \notin {"idle", "checked"} /\ Accepted(r)

\* C28: a TakeSnapshot call that is accepted calls RemoveCommitted on the
\* checkpoint hashes holder exactly once, right after the counter increment and
\* before it tries to enqueue; SetCheckpoint never calls it; a rejected call
\* (manager closed, or empty root) neither increments nor calls it.
C28_RemoveCommittedOnAcceptedSnapshot ==
    \A r \in Reqs :
        /\ (reqs[r].kind = "snapshot" /\ AtEnqueue(r)) =>
              /\ Count(reqs[r].log, "removeCommitted") = 1
              /\ Count(reqs[r].log, "enter") = 1
              /\ reqs[r].log[1] = "enter"
              /\ reqs[r].log[2] = "removeCommitted"
        /\ (reqs[r].kind = "checkpoint") => Count(reqs[r].log, "removeCommitted") = 0
        /\ ~Accepted(r) => Count(reqs[r].log, "removeCommitted") = 0
        /\ ~AtEnqueue(r) => reqs[r].log \in {<<>>, Rejection(r)}

\* an accepted snapshot and an accepted checkpoint, both past their enqueue
C28_Witness ==
    \E r1, r2 \in Reqs :
        /\ reqs[r1].kind = "snapshot" /\ AtEnqueue(r1)
        /\ reqs[r2].kind = "checkpoint" /\ AtEnqueue(r2)
        /\ reqs[r1].pc \in {"queued", "held", "running", "ending", "done"}
        /\ reqs[r2].pc \in {"queued", "held", "running", "ending", "done"}

\* a step on a request channel, from content q to content qn: nothing, or one
\* sender appends its entry behind the entries already there, or the receiver
\* (dispatcher or drain) takes the entry that has been there longest
ChannelStep(q, qn) ==
    \/ qn = q
    \/ \E r \in Reqs :
          /\ qn = Append(q, r)
          /\ \A i \in DOMAIN q : q[i] # r
          /\ reqs[r].pc = "select"
          /\ reqs'[r].pc = "queued"
    \/ /\ q # <<>>
       /\ qn = Tail(q)
       /\ reqs[Head(q)].pc = "queued"
       /\ reqs'[Head(q)].pc \in {"held", "done"}
       /\ \A i \in DOMAIN qn : reqs'[qn[i]].pc = "queued"

\* C29: each of the two queues is first-in first-out: entries are added at the
\* back only and taken from the front only, so requests of one kind are
\* dequeued in the order they were enqueued. Between the two queues there is
\* no order: whenever both hold an entry, the dispatcher's select (and the
\* drain's) can take from either, whichever entry is older.
C29_FifoPerQueue ==
    /\ [][/\ ChannelStep(snapshotReq, snapshotReq')
          /\ ChannelStep(checkpointReq, checkpointReq')]_vars
    /\ []((dpc = "select" /\ snapshotReq # <<>> /\ checkpointReq # <<>>) =>
             (ENABLED ReceiveSnapshot /\ ENABLED ReceiveCheckpoint))
    /\ []((dpc = "drain" /\ snapshotReq # <<>> /\ checkpointReq # <<>> /\ LockFree) =>
             (ENABLED CleanupSnapshot /\ ENABLED CleanupCheckpoint))

\* two snapshot requests wait in the snapshot channel, in the order they were
\* sent, the first of them about to be received
C29_Witness ==
    /\ Len(snapshotReq) = 2
    /\ snapshotReq[1] # snapshotReq[2]
    /\ dpc = "select"
    /\ ENABLED ReceiveSnapshot

\* C30: once Close() has signalled cancellation the dispatcher starts no worker
\* and reserves no throttler slot any more, and a request that is not yet with
\* a worker at that point never gets one: it is finished by the dispatcher or
\* by the drain, without its worker touching a store.
C30_NoWorkerAfterCancel ==
    [][ctxDone =>
          /\ thr' <= thr
          /\ \A r \in Reqs : reqs[r].pc # "running" => reqs'[r].pc # "running"]_vars

\* the lookup of key goes past the checkpoint store to the legacy db
ConsultsDb(key) ==
    /\ Len(StorerGet(mainStorer, key).val) = 0
    /\ Len(StorerGet(checkpointsStorer, key).val) = 0
    /\ ~flagDisableOldStorage

\* ... and past the legacy db to the legacy snapshot generations
ConsultsSnapshots(key) ==
    /\ ConsultsDb(key)
    /\ Len(StorerGet(db, key).val) = 0
    /\ Len(snapshots) > 0

\* C31: on a manager that is not closed, whatever EpochConfirmed, Get, Put and
\* Remove calls came before, a Get never reads from the legacy db after the
\* db's Close() has been called, nor from a legacy snapshot store after that
\* store's Close() has been called.
C31_GetNeverReadsClosedLegacy ==
    [][(ret' # ret /\ ret'.op = "Get" /\ ~closed) =>
          /\ ConsultsDb(ret'.key) => closeCalls.db = 0
          /\ ConsultsSnapshots(ret'.key) => closeCalls.snapshots = 0]_vars

\* every collaborator is there and the throttler could be built
CompleteArgs ==
    /\ Missing = {}
    /\ NewNumGoRoutinesThrottlerErr(ctor.goroutineNum) = ErrNil

\* C32: when the epoch notifier calls EpochConfirmed during the registration,
\* with an epoch at or above DisableOldTrieStorageEpoch, the construction
\* calls Close() on the legacy db exactly once, leaves oldStorageClosed and
\* the disable flag set, and starts exactly one dispatcher goroutine.
C32_RegistrationClosesLegacyOnce ==
    (ctor.called /\ CompleteArgs /\ FlagAfterRegister) =>
        /\ closeCalls.db = 1
        /\ oldStorageClosed
        /\ flagDisableOldStorage
        /\ ctor.loops = 1

\* event a is in the log of r and stands before event b
Before(r, a, b) ==
    \E i, j \in DOMAIN reqs[r].log :
        /\ i < j
        /\ reqs[r].log[i] = a
        /\ reqs[r].log[j] = b

\* C33: on every path that finishes a request (rejection at the entry, the
\* closer case of the enqueue select, the cancelled throttler wait, the drain,
\* the end of a worker), when the request's stats are marked finished its leaf
\* sink, if it has one, has been closed before and the increment of the
\* pruning-block counter, if one was made for it, has been released before.
C33_StatsMarkedLast ==
    \A r \in Reqs :
        Count(reqs[r].log, "stats") > 0 =>
            /\ reqs[r].sink => Before(r, "close", "stats")
            /\ Accepted(r) => Before(r, "exit", "stats")
            /\ Accepted(r) => Before(r, "enter", "exit")
            /\ reqs[r].log[Len(reqs[r].log)] \in {"stats", "end"}

\* a request with a sink finished by its worker after a full walk, another
\* with a sink rejected at the entry
C33_Witness ==
    \E r1, r2 \in Reqs :
        /\ reqs[r1].sink /\ Ended(r1) /\ Finished(r1) /\ Persisted(r1)
        /\ reqs[r2].sink /\ ~Accepted(r2) /\ reqs[r2].log = <<"close", "stats">>

\* what layer i of the active layers answers for the key of the last call
LayerAnswer(i) == StorerGet(ActiveLayers[i], ret.key)

\* the layer is passed over: it fails, or it holds the key with an empty value
Skipped(i) == Len(LayerAnswer(i).val) = 0

NotSkipped == {i \in DOMAIN ActiveLayers : ~Skipped(i)}

\* C34: in every layer Get takes a value of length zero for a miss: a layer
\* that holds the key with an empty value and a layer whose Get fails are both
\* passed over and the lookup goes on with the next layer; the answer is the
\* value of the first layer not passed over, and when all active layers are
\* passed over it is ErrKeyNotFound with no value, never an empty value
\* without error and never the error of a layer.
C34_EmptyValueIsAMiss ==
    ret.op = "Get" =>
        /\ ret.err \in {"nil", "ErrKeyNotFound"}
        /\ ret.err = "nil" => Len(ret.val) # 0
        /\ ret.err = "ErrKeyNotFound" => ret.val = <<>>
        /\ NotSkipped = {} => ret.err = "ErrKeyNotFound"
        /\ NotSkipped # {} =>
              /\ ret.err = "nil"
              /\ ret.val = LayerAnswer(Lowest(NotSkipped)).val
              /\ \A i \in 1..(Lowest(NotSkipped) - 1) : Skipped(i)

\* the main store fails, the checkpoint store and the legacy db hold the key
\* with an empty value, the only generation fails: not found
C34_Witness ==
    /\ ret.op = "Get"
    /\ ret.key \in DataKeys
    /\ ~flagDisableOldStorage
    /\ ret.key \notin DOMAIN mainStorer
    /\ ret.key \in DOMAIN checkpointsStorer /\ checkpointsStorer[ret.key] = <<>>
    /\ ret.key \in DOMAIN db /\ db[ret.key] = <<>>
    /\ Len(snapshots) = 1 /\ ret.key \notin DOMAIN snapshots[1]
    /\ ret.err = "ErrKeyNotFound"
    /\ ret.val = <<>>

\* C35: whatever the target answers for the activeDB key (the marker value,
\* another value, an empty value, an error), the marker check of a snapshot
\* worker does not fail the worker: isActiveDb returns true or false, never
\* panics, and the worker goes on to finish its request in the normal way.
C35_MarkerCheckNeverFails ==
    \A r \in Reqs : Count(reqs[r].log, "panic") = 0

\* ---- C36, C37
\* the address passes the checks made before it is put into the map
ValidAddress(address) ==
    /\ Len(address) > 0
    /\ ComputeId(address) = SelfShard
    /\ Len(address) = AddressLen

\* the transactions the loops have visited so far
Visited == txPool \ txsLeft

\* the marks a set of transactions calls for, whatever the order of the visits
ExpectedMarks(txs) ==
    [a \in {a \in Addresses :
              /\ ValidAddress(a)
              /\ \E tx \in txs : \/ tx.snd = a
                                 \/ tx.rcv = a /\ tx.pool # "Invalid"} |->
        [isSender |-> \E tx \in txs : tx.snd = a, balanceChanged |-> TRUE]]

\* C36: the marks do not depend on the order in which the transactions are
\* visited: after any visiting order the map is the one the pool calls for, in
\* which an address has isSender = true iff it is the self-shard sender of at
\* least one transaction of the pool; and an isSender that is true is never
\* set back to false by a later occurrence of the address as receiver.
C36_MarksIndependentOfOrder ==
    /\ [](markedAlteredAccounts = ExpectedMarks(Visited))
    /\ [][\A a \in DOMAIN markedAlteredAccounts :
            /\ a \in DOMAIN markedAlteredAccounts'
            /\ markedAlteredAccounts[a].isSender => markedAlteredAccounts'[a].isSender]_vars

\* an address that sends in one map of the pool and receives in a later one is
\* marked as sender when everything has been visited
C36_Witness ==
    /\ txsLeft = {}
    /\ \E t1, t2 \in txPool :
          /\ t1.snd = t2.rcv
          /\ ValidAddress(t1.snd)
          /\ PoolIndex(t1.pool) < PoolIndex(t2.pool)
          /\ t2.pool # "Invalid"
          /\ markedAlteredAccounts[t1.snd].isSender

\* C37: at every point of the extraction, an address is in the map only if it
\* is not empty, belongs to the self shard and has the length the address
\* converter gives, and only on account of a visited transaction that it sends
\* or that it receives in Txs, Scrs or Rewards; the valid self-shard sender of
\* a visited transaction is marked as sender in all four maps, Invalid
\* included; the receiver of a transaction of the Invalid map is not put into
\* the map by that transaction.
C37_OnlyValidSelfShardMarked ==
    /\ \A a \in DOMAIN markedAlteredAccounts :
          /\ ValidAddress(a)
          /\ markedAlteredAccounts[a].balanceChanged
          /\ \E tx \in Visited : \/ tx.snd = a
                                 \/ tx.rcv = a /\ tx.pool # "Invalid"
    /\ \A tx \in Visited :
          ValidAddress(tx.snd) =>
              /\ tx.snd \in DOMAIN markedAlteredAccounts
              /\ markedAlteredAccounts[tx.snd].isSender
    /\ \A tx \in Visited :
          (tx.pool # "Invalid" /\ ValidAddress(tx.rcv)) =>
              tx.rcv \in DOMAIN markedAlteredAccounts
    /\ [][\A tx \in txsLeft :
            (tx \notin txsLeft' /\ tx.pool = "Invalid"
               /\ tx.rcv \notin DOMAIN markedAlteredAccounts /\ tx.rcv # tx.snd) =>
                  tx.rcv \notin DOMAIN markedAlteredAccounts']_vars

\* a transaction of the Invalid map between two addresses of the self shard
\* has been visited: its sender is marked, its receiver is not
C37_Witness ==
    /\ txsLeft = {}
    /\ \E tx \in txPool :
          /\ tx.pool = "Invalid"
          /\ ValidAddress(tx.snd) /\ ValidAddress(tx.rcv)
          /\ tx.snd # tx.rcv
          /\ tx.snd \in DOMAIN markedAlteredAccounts
          /\ markedAlteredAccounts[tx.snd].isSender
          /\ tx.rcv \notin DOMAIN markedAlteredAccounts

\* the generation a restored store belongs to, read from what it holds
GenerationOf(store) == store["hash1"][2]

RestoredIds == {GenerationOf(snapshots[i]) : i \in DOMAIN snapshots}

\* the enumeration of the snapshots directory ran in the constructor
Enumerated == ctor.called /\ ctor.tsm = "tsm" /\ ~FlagAfterRegister

\* the generations on disk: the directories with a numeric name whose store opens
OpenableIds ==
    IF ctor.dirs.state # "read" THEN {}
    ELSE {Atoi(n) : n \in {m \in DOMAIN ctor.dirs.files :
                             ctor.dirs.files[m] = "dir" /\ ~AtoiFails(m)}}

Largest(ids) == CHOOSE k \in ids : \A o \in ids : k >= o

OrderedNewestLast ==
    /\ \A i, j \in DOMAIN snapshots : i < j =>
         GenerationOf(snapshots[i]) < GenerationOf(snapshots[j])
    /\ Len(snapshots) > 0 =>
         getFromSnapshots(Len(snapshots), "hash1") = Found(SnapshotVal(Largest(RestoredIds)))

\* C38 (as stated): the restored generations are in ascending order of their
\* id, none twice, Get's reverse iteration finds the highest generation first,
\* and the snapshot id is 0 when no generation was restored and the largest
\* restored id plus one otherwise.
C38_OrderedAndNextId ==
    Enumerated =>
      /\ OrderedNewestLast
      /\ ctor.snapshotId = IF RestoredIds = {} THEN 0 ELSE Largest(RestoredIds) + 1

\* C38 (amended): the restored generations are always in ascending order of
\* their id, none twice, and Get's reverse iteration finds the highest one
\* first. When the enumeration returns no error, every generation on disk is
\* restored and the snapshot id is 0 without generations and the largest id
\* plus one otherwise; when it returns an error, only generations on disk are
\* restored and the snapshot id is the largest restored id, not incremented
\* (0 without restored generations).
C38_OrderedAndNextIdUnlessError ==
    Enumerated =>
      /\ OrderedNewestLast
      /\ ctor.snapErr = ErrNil =>
           /\ RestoredIds = OpenableIds
           /\ ctor.snapshotId = IF RestoredIds = {} THEN 0 ELSE Largest(RestoredIds) + 1
      /\ ctor.snapErr # ErrNil =>
           /\ RestoredIds \subseteq OpenableIds
           /\ ctor.snapshotId = IF RestoredIds = {} THEN 0 ELSE Largest(RestoredIds)

\* three generations restored without error: their names sort as 0, 10, 2
C38_Witness ==
    /\ Enumerated
    /\ ctor.snapErr = ErrNil
    /\ Len(snapshots) = 3
    /\ ctor.snapshotId = 11

====
